---- MODULE Spec2Model ----
(***************************************************************************)
(* A model of the security scanner's scan pipeline.                        *)
(*                                                                         *)
(*   - ScanCache (src/src/scanner/cache.ts): the content-addressed result  *)
(*     cache with its per-path lock map, modelled at the granularity of    *)
(*     the JavaScript event loop: a call runs until its next await, the    *)
(*     continuations of a settled promise run in registration order.       *)
(*   - runScanInternal (src/src/cli/commands/scan.ts): the loop over the   *)
(*     targets with its parallel and its bounded-concurrency branch, one   *)
(*     step per awaited call.                                              *)
(*   - rpc / retryWithBackoff (src/src/scanner/mcp/client-http.ts) and     *)
(*     listAll (collect.ts): a call with its retries, a paginated listing. *)
(***************************************************************************)
EXTENDS Integers, Sequences, FiniteSets, TLC

(***************************************************************************)
(* Bounds of the model.                                                    *)
(***************************************************************************)
NumPaths == 2
NumContents == 2
MaxCalls == 3
MaxTime == 2
MaxFindingsLen == 1
MaxCatalog == 2
MaxRuns == 2
MaxEntriesBound == 2
MaxAge == 1
MaxSizeBytes == 600
\* config.maxTotalFindings, config.maxFindingsPerFile, config.parallelThreshold
\* of the modelled runs, the size of the worker pool and the most findings the
\* engine reports for one file
MaxTotalFindings == 3
MaxFindingsPerFile == 2
ParallelThreshold == 2
NumWorkers == 2
MaxRaw == 3
\* the largest options.maxRetries a caller sets, the most pages a server has
MaxRetriesOpt == 1
MaxPages == 3
\* the most rules of a catalog and the most patterns of a rule
MaxRules == 2
MaxPatterns == 2
MaxServers == 2
MaxVirtualFiles == 2

Paths == 1..NumPaths
Calls == 1..MaxCalls
\* 0 stands for a file that cannot be read
Contents == 0..NumContents

(***************************************************************************)
(* Program constants.                                                      *)
(***************************************************************************)
EntryOverheadBytes == 92
FindingBytes == 500
MaxFindingsPerRulePerFile == 20
DefaultMaxRetries == 3
MethodNotFound == -32601
ListCap == 20000

VARIABLES
    cache,       \* ScanCache.cache: the Map, as its entries in insertion order
    dirty,       \* ScanCache.dirty
    locks,       \* ScanCache.locks: path -> the call whose doSet promise is stored (0: none)
    waiters,     \* per lock promise: the calls awaiting it, in registration order
    mq,          \* the microtask queue: continuations ready to run, in order
    calls,       \* the getCachedFindings / setCachedFindings calls of this run
    saver,       \* the save() call: its position and the data it serialized
    disk,        \* the cache file: "absent" or the persisted map
    files,       \* the scanned files' contents
    now,         \* Date.now()
    maxEntries,  \* ScanCache.maxEntries (config.cacheMaxEntries of this run)
    catalog,     \* the revision of the rule catalog loaded by this run
    run          \* the number of the current run

VARIABLES
    plans,       \* runScanInternal: scanPlans, the files of each target
    opts,        \* the configuration and options of this run
    raw,         \* per file: how many findings scanFile reports for it
    main,        \* runScanInternal: its position and its locals
    findings,    \* runScanInternal: the `findings` accumulator
    index,       \* the shared `index` of the worker pool
    workers,     \* the workers of the bounded-concurrency branch
    scanResult   \* result.findings once the run has finished

VARIABLES
    rpcCall,     \* rpc / retryWithBackoff: the call in progress, its position
    nextId,      \* client-http.ts: the module's `nextId`
    wire,        \* the requests the call in progress has sent
    replies,     \* the responses the call in progress has received
    lst,         \* listAll: its position and its locals
    book         \* the server: the pages of the listed collection

VARIABLES
    proc         \* the process: its terminal, the signal it got, how it ended

VARIABLES
    post,        \* options.showConfidence, minConfidence, fix; the confidence per file
    fixedLines   \* applyFixes: the (file, line) pairs it has commented out

VARIABLES
    last         \* the caller of the ScanCache: the call that returned to it last

VARIABLES
    coll,        \* collectFromServer: its position, its options, what it has collected
    multi        \* runMcpRemoteMultiScan: the servers, collectedPlans, allFindings

VARIABLES
    batch        \* scanFilesParallel on the uncached files of a target: the files,
                 \* the scanFile promises, what the caller got

VARIABLES
    ending       \* the end of runScanInternal: options, findings, the reported result

VARIABLES
    res          \* collectFromServer: one resources/read, its reply and what is stored

VARIABLES
    excl         \* scanContent on one rule: its matches, the lastIndex of each exclude regex

VARIABLES
    walk         \* the symlink checks of a run: the plans, visitedPaths, the files refused

VARIABLES
    pager        \* listAll against a server that chooses its cursors

VARIABLES
    pool         \* the worker pool of one target: index, the workers, the files picked

VARIABLES
    eng          \* the engine on one file: the rule catalog, how the rules are
                 \* handed to scanFile, and what scanFile returned

cacheVars == <<cache, dirty, locks, waiters, mq, calls, saver, disk, files, now,
               maxEntries, catalog, run>>

scanVars == <<plans, opts, raw, main, findings, index, workers, scanResult>>

mcpVars == <<rpcCall, nextId, wire, replies, lst, book>>

procVars == <<proc>>

postVars == <<post, fixedLines>>

engVars == <<eng>>

histVars == <<last>>

collVars == <<coll, multi>>

unitVars == <<batch, ending, res, excl, walk, pager, pool>>
unitsBut_batch == <<ending, res, excl, walk, pager, pool>>
unitsBut_ending == <<batch, res, excl, walk, pager, pool>>
unitsBut_res == <<batch, ending, excl, walk, pager, pool>>
unitsBut_excl == <<batch, ending, res, walk, pager, pool>>
unitsBut_walk == <<batch, ending, res, excl, pager, pool>>
unitsBut_pager == <<batch, ending, res, excl, walk, pool>>
unitsBut_pool == <<batch, ending, res, excl, walk, pager>>

vars == <<cache, dirty, locks, waiters, mq, calls, saver, disk, files, now,
          maxEntries, catalog, run,
          plans, opts, raw, main, findings, index, workers, scanResult,
          rpcCall, nextId, wire, replies, lst, book, proc, post, fixedLines, eng, last, coll, multi,
          batch, ending, res, excl, walk, pager, pool>>

(***************************************************************************)
(* Values.                                                                 *)
(***************************************************************************)
Miss == [hit |-> FALSE, findings |-> <<>>]
Hit(fs) == [hit |-> TRUE, findings |-> fs]

NoHash == [kind |-> "none", of |-> 0, at |-> 0]
NoEntry == [path |-> 0, hash |-> NoHash, findings |-> <<>>, timestamp |-> 0,
            ruleVersion |-> "none"]

\* what the caller knows of a call that has returned: what it asked for and,
\* of a setCachedFindings, when it read the clock and the bytes it hashed
\* (0: unreadable)
NoLast == [op |-> "none", path |-> 0, findings |-> <<>>, at |-> 0, content |-> 0]

IdleCall == [pc |-> "idle", op |-> "none", path |-> 0, findings |-> <<>>,
             cached |-> NoEntry, at |-> 0, seen |-> NoHash, result |-> Miss]

\* the findings a scan of file p under catalog revision k reports: n findings
\* of its rules
FindingsUnder(k, p, n) == [i \in 1..n |-> [ruleId |-> k, file |-> p, line |-> i]]

\* the rule version scan.ts hands to the ScanCache constructor
RuleVersion(k) == "1.0"

\* ScanCache.hashFile: SHA-256 of the bytes, or a token naming path and time
hashFile(p, content, t) ==
    IF content = 0
    THEN [kind |-> "error", of |-> p, at |-> t]
    ELSE [kind |-> "sha256", of |-> content, at |-> 0]

(***************************************************************************)
(* The Map operations used by the cache.                                   *)
(***************************************************************************)
RECURSIVE IndexOf(_, _, _)
IndexOf(m, p, i) ==
    IF i > Len(m) THEN 0
    ELSE IF m[i].path = p THEN i
    ELSE IndexOf(m, p, i + 1)

MapHas(m, p) == IndexOf(m, p, 1) # 0
MapGet(m, p) == IF MapHas(m, p) THEN m[IndexOf(m, p, 1)] ELSE NoEntry

\* Map.set keeps the position of an existing key, appends a new one
MapSet(m, e) ==
    IF MapHas(m, e.path)
    THEN [m EXCEPT ![IndexOf(m, e.path, 1)] = e]
    ELSE Append(m, e)

MapDelete(m, p) == SelectSeq(m, LAMBDA e : e.path # p)

RECURSIVE OldestIndex(_, _, _)
\* the scan of evictOldestEntry: the first entry with the least timestamp
OldestIndex(m, i, best) ==
    IF i > Len(m) THEN best
    ELSE IF best = 0 \/ m[i].timestamp < m[best].timestamp
         THEN OldestIndex(m, i + 1, i)
         ELSE OldestIndex(m, i + 1, best)

evictOldestEntry(m) ==
    IF Len(m) = 0 THEN m
    ELSE MapDelete(m, m[OldestIndex(m, 1, 0)].path)

RECURSIVE estimateCacheSize(_)
estimateCacheSize(m) ==
    IF Len(m) = 0 THEN 0
    ELSE EntryOverheadBytes + Len(Head(m).findings) * FindingBytes
         + estimateCacheSize(Tail(m))

\* doSetCachedFindings with the statements in another order: the entry is
\* put into the map first and the map is trimmed afterwards
doSetInsertThenEvict(m, p, h, fs, t, k, limit) ==
    LET m1 == MapSet(m, [path |-> p, hash |-> h, findings |-> fs, timestamp |-> t,
                         ruleVersion |-> RuleVersion(k)])
    IN  IF Len(m1) >= limit THEN evictOldestEntry(m1) ELSE m1

\* the synchronous part of doSetCachedFindings after the hash is known
doSetInsert(m, p, h, fs, t, k, limit) ==
    LET m1 == IF Len(m) >= limit THEN evictOldestEntry(m) ELSE m
        m2 == IF estimateCacheSize(m1) >= MaxSizeBytes THEN evictOldestEntry(m1) ELSE m1
    IN  MapSet(m2, [path |-> p, hash |-> h, findings |-> fs, timestamp |-> t,
                    ruleVersion |-> RuleVersion(k)])

\* the filter of load(): entries of this rule version that are not expired
LoadKeeps(e, t, k) == e.ruleVersion = RuleVersion(k) /\ t - e.timestamp < MaxAge

RECURSIVE LoadInto(_, _, _, _)
LoadInto(m, data, t, k) ==
    IF Len(data) = 0 THEN m
    ELSE LoadInto(IF LoadKeeps(Head(data), t, k) THEN MapSet(m, Head(data)) ELSE m,
                  Tail(data), t, k)

(***************************************************************************)
(* Init: a freshly constructed ScanCache, no cache file yet.               *)
(***************************************************************************)
InitCache ==
    /\ cache = <<>>
    /\ dirty = FALSE
    /\ locks = [p \in Paths |-> 0]
    /\ waiters = [c \in Calls |-> <<>>]
    /\ mq = <<>>
    /\ calls = [c \in Calls |-> IdleCall]
    /\ saver = [pc |-> "idle", data |-> <<>>]
    /\ disk = [state |-> "absent", data |-> <<>>]
    /\ files = [p \in Paths |-> 1]
    /\ now = 0
    /\ maxEntries \in 1..MaxEntriesBound
    /\ catalog = 1
    /\ run = 1
    /\ last = NoLast

\* a call takes the first free slot; a slot is free again once its call has
\* returned to its caller
FreeSlot(c) == calls[c].pc = "idle" /\ \A d \in Calls : d < c => calls[d].pc # "idle"

\* no call is handing its result to its caller
NoneReturning == \A c \in Calls : calls[c].pc # "done"

(***************************************************************************)
(* getCachedFindings.                                                      *)
(***************************************************************************)
\* the code from `const cached = this.cache.get(filePath)` to the hash await
GetBody(c, p) ==
    LET e == MapGet(cache, p) IN
    IF ~MapHas(cache, p)
    THEN /\ calls' = [calls EXCEPT ![c] = [@ EXCEPT !.pc = "done", !.op = "get",
                                             !.path = p, !.at = now, !.result = Miss]]
         /\ UNCHANGED <<cache, dirty>>
    ELSE IF e.ruleVersion # RuleVersion(catalog) \/ now - e.timestamp > MaxAge
    THEN /\ cache' = MapDelete(cache, p)
         /\ dirty' = TRUE
         /\ calls' = [calls EXCEPT ![c] = [@ EXCEPT !.pc = "done", !.op = "get",
                                             !.path = p, !.cached = e, !.at = now,
                                             !.result = Miss]]
    ELSE /\ calls' = [calls EXCEPT ![c] = [@ EXCEPT !.pc = "readHash", !.op = "get",
                                             !.path = p, !.cached = e, !.at = now]]
         /\ UNCHANGED <<cache, dirty>>

\* a new call of getCachedFindings(p), up to its first await. The caller runs
\* between two batches of continuations, never inside one: the reactions of a
\* settled promise are queued together
CallGet(c, p) ==
    /\ NoneReturning
    /\ FreeSlot(c)
    /\ mq = <<>>
    /\ IF locks[p] # 0
       THEN /\ waiters' = [waiters EXCEPT ![locks[p]] = Append(@, c)]
            /\ calls' = [calls EXCEPT ![c] = [@ EXCEPT !.pc = "waitLock", !.op = "get",
                                                !.path = p]]
            /\ UNCHANGED <<cache, dirty, mq>>
       ELSE /\ GetBody(c, p)
            /\ UNCHANGED <<waiters, mq>>
    /\ UNCHANGED <<locks, saver, disk, files, now, maxEntries, catalog, run>>
    /\ UNCHANGED <<scanVars, mcpVars, procVars, postVars, engVars, histVars, collVars, unitVars>>

\* the file has been read and hashed: compare and answer
GetHashDone(c) ==
    /\ NoneReturning
    /\ calls[c].pc = "readHash"
    /\ mq = <<>>
    /\ LET p == calls[c].path
           h == hashFile(p, files[p], now)
       IN  IF calls[c].cached.hash # h
           THEN /\ cache' = MapDelete(cache, p)
                /\ dirty' = TRUE
                /\ calls' = [calls EXCEPT ![c] = [@ EXCEPT !.pc = "done", !.seen = h,
                                                    !.result = Miss]]
           ELSE /\ calls' = [calls EXCEPT ![c] = [@ EXCEPT !.pc = "done", !.seen = h,
                                    !.result = Hit(calls[c].cached.findings)]]
                /\ UNCHANGED <<cache, dirty>>
    /\ UNCHANGED <<locks, waiters, mq, saver, disk, files, now, maxEntries, catalog, run>>
    /\ UNCHANGED <<scanVars, mcpVars, procVars, postVars, engVars, histVars, collVars, unitVars>>

(***************************************************************************)
(* setCachedFindings.                                                      *)
(***************************************************************************)
\* `const lockPromise = this.doSetCachedFindings(..)`, which runs up to the hash
\* await, then `this.locks.set(filePath, lockPromise)` and `await lockPromise`
SetBody(c, p, fs) ==
    /\ calls' = [calls EXCEPT ![c] = [@ EXCEPT !.pc = "hashing", !.op = "set",
                                        !.path = p, !.findings = fs]]
    /\ locks' = [locks EXCEPT ![p] = c]

CallSet(c, p, n) ==
    /\ NoneReturning
    /\ FreeSlot(c)
    /\ mq = <<>>
    /\ IF locks[p] # 0
       THEN /\ waiters' = [waiters EXCEPT ![locks[p]] = Append(@, c)]
            /\ calls' = [calls EXCEPT ![c] = [@ EXCEPT !.pc = "waitLock", !.op = "set",
                              !.path = p, !.findings = FindingsUnder(catalog, p, n)]]
            /\ UNCHANGED <<locks, mq>>
       ELSE /\ SetBody(c, p, FindingsUnder(catalog, p, n))
            /\ UNCHANGED <<waiters, mq>>
    /\ UNCHANGED <<cache, dirty, saver, disk, files, now, maxEntries, catalog, run>>
    /\ UNCHANGED <<scanVars, mcpVars, procVars, postVars, engVars, histVars, collVars, unitVars>>

\* the hash is known: evict, insert, mark dirty; the doSet promise settles and
\* its reactions are queued: the owner's `finally` first, then the waiters
SetHashDone(c) ==
    /\ NoneReturning
    /\ calls[c].pc = "hashing"
    /\ mq = <<>>
    /\ LET p == calls[c].path
           h == hashFile(p, files[p], now)
       IN  /\ cache' = doSetInsert(cache, p, h, calls[c].findings, now, catalog, maxEntries)
           /\ calls' = [calls EXCEPT ![c] = [@ EXCEPT !.pc = "release", !.seen = h,
                                                       !.at = now]]
    /\ dirty' = TRUE
    /\ mq' = <<c>> \o waiters[c]
    /\ waiters' = [waiters EXCEPT ![c] = <<>>]
    /\ UNCHANGED <<locks, saver, disk, files, now, maxEntries, catalog, run>>
    /\ UNCHANGED <<scanVars, mcpVars, procVars, postVars, engVars, histVars, collVars, unitVars>>

(***************************************************************************)
(* The event loop: the next continuation of the microtask queue.           *)
(***************************************************************************)
\* the `finally` of setCachedFindings: this.locks.delete(filePath)
Release ==
    /\ NoneReturning
    /\ mq # <<>>
    /\ calls[Head(mq)].pc = "release"
    /\ locks' = [locks EXCEPT ![calls[Head(mq)].path] = 0]
    /\ calls' = [calls EXCEPT ![Head(mq)] = [@ EXCEPT !.pc = "done"]]
    /\ mq' = Tail(mq)
    /\ UNCHANGED <<cache, dirty, waiters, saver, disk, files, now, maxEntries, catalog, run>>
    /\ UNCHANGED <<scanVars, mcpVars, procVars, postVars, engVars, histVars, collVars, unitVars>>

\* a getCachedFindings that awaited a lock goes on, without looking at the map again
ResumeGet ==
    /\ NoneReturning
    /\ mq # <<>>
    /\ calls[Head(mq)].pc = "waitLock"
    /\ calls[Head(mq)].op = "get"
    /\ GetBody(Head(mq), calls[Head(mq)].path)
    /\ mq' = Tail(mq)
    /\ UNCHANGED <<locks, waiters, saver, disk, files, now, maxEntries, catalog, run>>
    /\ UNCHANGED <<scanVars, mcpVars, procVars, postVars, engVars, histVars, collVars, unitVars>>

\* a setCachedFindings that awaited a lock goes on, without looking at the map again
ResumeSet ==
    /\ NoneReturning
    /\ mq # <<>>
    /\ calls[Head(mq)].pc = "waitLock"
    /\ calls[Head(mq)].op = "set"
    /\ SetBody(Head(mq), calls[Head(mq)].path, calls[Head(mq)].findings)
    /\ mq' = Tail(mq)
    /\ UNCHANGED <<cache, dirty, waiters, saver, disk, files, now, maxEntries, catalog, run>>
    /\ UNCHANGED <<scanVars, mcpVars, procVars, postVars, engVars, histVars, collVars, unitVars>>

(***************************************************************************)
(* load and save.                                                          *)
(***************************************************************************)
\* load(): the file is read and parsed, the entries that pass the filter are
\* put into the map; a missing or unparsable file clears the map
Load ==
    /\ NoneReturning
    /\ mq = <<>>
    /\ cache' = IF disk.state = "ok" THEN LoadInto(cache, disk.data, now, catalog)
                ELSE <<>>
    /\ UNCHANGED <<dirty, locks, waiters, mq, calls, saver, disk, files, now,
                   maxEntries, catalog, run>>
    /\ UNCHANGED <<scanVars, mcpVars, procVars, postVars, engVars, histVars, collVars, unitVars>>

\* save(): `if (!this.dirty) return`, then the mkdir await
SaveCall ==
    /\ NoneReturning
    /\ saver.pc = "idle"
    /\ dirty
    /\ saver' = [saver EXCEPT !.pc = "mkdir"]
    /\ UNCHANGED <<cache, dirty, locks, waiters, mq, calls, disk, files, now,
                   maxEntries, catalog, run>>
    /\ UNCHANGED <<scanVars, mcpVars, procVars, postVars, engVars, histVars, collVars, unitVars>>

\* the map is copied and serialized, writeFile starts
SaveSerialize ==
    /\ NoneReturning
    /\ saver.pc = "mkdir"
    /\ mq = <<>>
    /\ saver' = [pc |-> "writing", data |-> cache]
    /\ UNCHANGED <<cache, dirty, locks, waiters, mq, calls, disk, files, now,
                   maxEntries, catalog, run>>
    /\ UNCHANGED <<scanVars, mcpVars, procVars, postVars, engVars, histVars, collVars, unitVars>>

\* writeFile has written the whole text: `this.dirty = false`
SaveDone ==
    /\ NoneReturning
    /\ saver.pc = "writing"
    /\ mq = <<>>
    /\ disk' = [state |-> "ok", data |-> saver.data]
    /\ dirty' = FALSE
    /\ saver' = [pc |-> "idle", data |-> <<>>]
    /\ UNCHANGED <<cache, locks, waiters, mq, calls, files, now, maxEntries, catalog, run>>
    /\ UNCHANGED <<scanVars, mcpVars, procVars, postVars, engVars, histVars, collVars, unitVars>>

\* mkdir or writeFile throws: the error is logged; a write that failed part-way
\* may leave a truncated file
SaveFail ==
    /\ NoneReturning
    /\ saver.pc \in {"mkdir", "writing"}
    /\ mq = <<>>
    /\ disk' \in (IF saver.pc = "writing"
                  THEN {disk, [state |-> "torn", data |-> <<>>]}
                  ELSE {disk})
    /\ saver' = [pc |-> "idle", data |-> <<>>]
    /\ UNCHANGED <<cache, dirty, locks, waiters, mq, calls, files, now,
                   maxEntries, catalog, run>>
    /\ UNCHANGED <<scanVars, mcpVars, procVars, postVars, engVars, histVars, collVars, unitVars>>

(***************************************************************************)
(* The environment: the clock, the scanned files, the next run.            *)
(***************************************************************************)
Tick ==
    /\ NoneReturning
    /\ now < MaxTime
    /\ now' = now + 1
    /\ UNCHANGED <<cache, dirty, locks, waiters, mq, calls, saver, disk, files,
                   maxEntries, catalog, run>>
    /\ UNCHANGED <<scanVars, mcpVars, procVars, postVars, engVars, histVars, collVars, unitVars>>

ModifyFile(p, content) ==
    /\ NoneReturning
    /\ content # files[p]
    /\ files' = [files EXCEPT ![p] = content]
    /\ UNCHANGED <<cache, dirty, locks, waiters, mq, calls, saver, disk, now,
                   maxEntries, catalog, run>>
    /\ UNCHANGED <<scanVars, mcpVars, procVars, postVars, engVars, histVars, collVars, unitVars>>

\* the process has ended; the next run loads its rule catalog, which may have
\* been edited, and constructs a new ScanCache from its configuration
NewRun ==
    /\ NoneReturning
    /\ run < MaxRuns
    /\ mq = <<>>
    /\ saver.pc = "idle"
    /\ \A c \in Calls : calls[c].pc = "idle"
    /\ run' = run + 1
    /\ catalog' \in {k \in {catalog, catalog + 1} : k <= MaxCatalog}
    /\ maxEntries' \in 1..MaxEntriesBound
    /\ cache' = <<>>
    /\ dirty' = FALSE
    /\ locks' = [p \in Paths |-> 0]
    /\ last' = NoLast
    /\ UNCHANGED <<waiters, calls, mq, saver, disk, files, now>>
    /\ UNCHANGED <<scanVars, mcpVars, procVars, postVars, engVars, collVars, unitVars>>

\* the call's promise settles: its caller has the result
Return(c) ==
    /\ calls[c].pc = "done"
    /\ calls' = [calls EXCEPT ![c] = IdleCall]
    /\ last' = IF calls[c].op = "set"
               THEN [op |-> "set", path |-> calls[c].path,
                     findings |-> calls[c].findings, at |-> calls[c].at,
                     content |-> IF calls[c].seen.kind = "sha256"
                                 THEN calls[c].seen.of ELSE 0]
               ELSE [NoLast EXCEPT !.op = "get", !.path = calls[c].path]
    /\ UNCHANGED <<cache, dirty, locks, waiters, mq, saver, disk, files, now,
                   maxEntries, catalog, run>>
    /\ UNCHANGED <<scanVars, mcpVars, procVars, postVars, engVars, collVars, unitVars>>

(***************************************************************************)
(* rpc and retryWithBackoff (src/src/scanner/mcp/client-http.ts).          *)
(***************************************************************************)
\* `McpRpcError.code`, a number or undefined
NoCode == [defined |-> FALSE, value |-> 0]
Code(c) == [defined |-> TRUE, value |-> c]

\* the HTTP statuses and the JSON-RPC error codes the modelled servers use
Statuses == {200, 400, 500}
ErrorCodes == {NoCode, Code(MethodNotFound), Code(-32000), Code(404)}

\* fetch rejects: the network failed or the timeout aborted the request
NetworkError == [net |-> TRUE, status |-> 0, body |-> "none", code |-> NoCode, page |-> 0]
\* an HTTP response: its status and what its body is
Http(status, body, code, page) ==
    [net |-> FALSE, status |-> status, body |-> body, code |-> code, page |-> page]

\* the responses a server can give: the body is not JSON, is empty, carries a
\* result, carries an error object, or is cut by the timeout while it is read
Responses ==
    {NetworkError}
    \cup {Http(s, b, NoCode, 0) : s \in Statuses, b \in {"aborted", "invalid", "empty", "result"}}
    \cup {Http(s, "error", c, 0) : s \in Statuses, c \in ErrorCodes}

\* Response.ok
ResOk(status) == status >= 200 /\ status <= 299

\* what a request settles to
NoError == [thrown |-> FALSE, mcp |-> FALSE, code |-> NoCode, req |-> 0]
Thrown(mcp, code, req) == [thrown |-> TRUE, mcp |-> mcp, code |-> code, req |-> req]

\* the body of the function handed to retryWithBackoff, from the response on:
\* the error it throws for request number req, or NoError when it returns
\* json.result
ErrorOf(r, req) ==
    IF r.net THEN Thrown(TRUE, NoCode, req)
    ELSE IF r.body = "aborted" THEN Thrown(FALSE, NoCode, req)
    ELSE IF r.body = "invalid" THEN Thrown(TRUE, Code(r.status), req)
    ELSE IF ~ResOk(r.status)
    THEN Thrown(TRUE, IF r.body = "error" /\ r.code.defined THEN r.code ELSE Code(r.status), req)
    ELSE IF r.body = "error" THEN Thrown(TRUE, r.code, req)
    ELSE IF r.body = "empty" THEN Thrown(TRUE, NoCode, req)
    ELSE NoError

\* `error instanceof McpRpcError && (error.code === -32601 ||
\*  (error.code && error.code >= 400 && error.code < 500))`
IsClientError(e) ==
    /\ e.mcp
    /\ e.code.defined
    /\ \/ e.code.value = MethodNotFound
       \/ e.code.value # 0 /\ e.code.value >= 400 /\ e.code.value < 500

\* isMethodNotFound that knows no such error
isNeverNotFound(e) == FALSE

\* isMethodNotFound
isMethodNotFound(e) == e.mcp /\ e.code.defined /\ e.code.value = MethodNotFound

\* options.maxRetries, a number or undefined
Unset == [set |-> FALSE, value |-> 0]
SetTo(n) == [set |-> TRUE, value |-> n]
RetryOptions == {Unset} \cup {SetTo(n) : n \in 0..MaxRetriesOpt}

MaxRetriesPlusOne(opt) == IF opt.set THEN opt.value ELSE DefaultMaxRetries + 1

\* `const maxRetries = options?.maxRetries ?? 3`
EffectiveMaxRetries(opt) == IF opt.set THEN opt.value ELSE DefaultMaxRetries

NoCursor == 0

IdleRpc == [pc |-> "idle", params |-> NoCursor, opt |-> Unset, attempt |-> 0,
            page |-> 0, error |-> NoError]

\* rpc is called: retryWithBackoff makes attempt 0, which sends a request
RpcBegin(params, opt) ==
    /\ rpcCall' = [IdleRpc EXCEPT !.pc = "fetch", !.params = params, !.opt = opt]
    /\ replies' = <<>>
    /\ wire' = <<[id |-> nextId, cursor |-> params]>>
    /\ nextId' = nextId + 1

\* the response of the request in flight arrives: the call returns the result,
\* throws the error, or waits to try again
RpcSettle(r) ==
    /\ rpcCall.pc = "fetch"
    /\ replies' = Append(replies, r)
    /\ LET e == ErrorOf(r, Len(wire)) IN
       IF ~e.thrown
       THEN rpcCall' = [rpcCall EXCEPT !.pc = "returned", !.page = r.page]
       ELSE IF IsClientError(e) \/ rpcCall.attempt = EffectiveMaxRetries(rpcCall.opt)
       THEN rpcCall' = [rpcCall EXCEPT !.pc = "thrown", !.error = e]
       ELSE rpcCall' = [rpcCall EXCEPT !.pc = "backoff", !.error = e]
    /\ UNCHANGED <<nextId, wire>>

\* the backoff delay is over: the next attempt sends its request
RpcRetry ==
    /\ rpcCall.pc = "backoff"
    /\ rpcCall' = [rpcCall EXCEPT !.pc = "fetch", !.attempt = @ + 1]
    /\ wire' = Append(wire, [id |-> nextId, cursor |-> rpcCall.params])
    /\ nextId' = nextId + 1
    /\ UNCHANGED <<replies, lst, book>>
    /\ UNCHANGED <<cacheVars, scanVars, procVars, postVars, engVars, histVars, collVars, unitVars>>

\* a caller other than listAll calls rpc
DirectCall(opt) ==
    /\ rpcCall.pc = "idle"
    /\ lst.pc = "off"
    /\ RpcBegin(NoCursor, opt)
    /\ UNCHANGED <<lst, book>>
    /\ UNCHANGED <<cacheVars, scanVars, procVars, postVars, engVars, histVars, collVars, unitVars>>

\* the server answers that caller's request
DirectReply(r) ==
    /\ lst.pc = "off"
    /\ RpcSettle(r)
    /\ UNCHANGED <<lst, book>>
    /\ UNCHANGED <<cacheVars, scanVars, procVars, postVars, engVars, histVars, collVars, unitVars>>

(***************************************************************************)
(* listAll (collect.ts, src/unnamed/part_009).  A list of items is kept as *)
(* its runs: the items of page k, in order, are [page |-> k, count |-> n]. *)
(***************************************************************************)
\* a page of the server: how many items it has and what its nextCursor is: not
\* there, the empty string, or the cursor of the page that follows
PageSizes == {0, 1, ListCap}
PageKinds == [n : PageSizes, next : {"absent", "empty", "following"}]

RECURSIVE SeqsUpTo(_, _)
SeqsUpTo(S, k) ==
    IF k = 0 THEN {<<>>}
    ELSE SeqsUpTo(S, k - 1) \cup {Append(s, x) : s \in SeqsUpTo(S, k - 1), x \in S}

\* the servers: up to MaxPages pages, the last of them without a following page
Books == {b \in SeqsUpTo(PageKinds, MaxPages) :
              Len(b) >= 1 /\ b[Len(b)].next # "following"}

EmptyCursor == -1

\* the page a request with cursor c asks for
PageFor(c) == IF c = NoCursor THEN 1 ELSE c

\* normalizeListResult of page k of the server
normalizeListResult(b, k) ==
    [n |-> b[k].n,
     nextCursor |-> IF b[k].next = "following" THEN k + 1
                    ELSE IF b[k].next = "empty" THEN EmptyCursor ELSE NoCursor]

RECURSIVE ItemCount(_)
\* `out.length`
ItemCount(out) ==
    IF Len(out) = 0 THEN 0 ELSE Head(out).count + ItemCount(Tail(out))

PushFront(out, k, n) == IF n = 0 THEN out ELSE <<[page |-> k, count |-> n]>> \o out

\* `out.push(...items)` with the n items of page k
PushItems(out, k, n) == IF n = 0 THEN out ELSE Append(out, [page |-> k, count |-> n])

\* what the server answers to a listing request with cursor c
ListReplies(c) ==
    {NetworkError, Http(500, "empty", NoCode, 0),
     Http(200, "error", Code(MethodNotFound), 0),
     Http(200, "result", NoCode, PageFor(c))}

OffList == [pc |-> "off", opt |-> Unset, cursor |-> NoCursor, out |-> <<>>,
            asked |-> <<>>, notFound |-> FALSE, result |-> <<>>, error |-> NoError]

\* no MCP call in progress
McpOff ==
    /\ rpcCall = IdleRpc
    /\ nextId = 1
    /\ wire = <<>>
    /\ replies = <<>>
    /\ lst = OffList
    /\ book = <<>>

\* a server and the options of the listing
InitList ==
    /\ rpcCall = IdleRpc
    /\ nextId = 1
    /\ wire = <<>>
    /\ replies = <<>>
    /\ lst \in {[OffList EXCEPT !.pc = "idle", !.opt = SetTo(n)] : n \in 0..MaxRetriesOpt}
    /\ book \in Books

\* listAll is called: the first request has no cursor
ListCall ==
    /\ lst.pc = "idle"
    /\ lst' = [lst EXCEPT !.pc = "await", !.asked = <<NoCursor>>]
    /\ RpcBegin(NoCursor, lst.opt)
    /\ UNCHANGED book
    /\ UNCHANGED <<cacheVars, scanVars, procVars, postVars, engVars, histVars, collVars, unitVars>>

\* the server answers the listing request in flight
ListReply(r) ==
    /\ lst.pc = "await"
    /\ RpcSettle(r)
    /\ UNCHANGED <<lst, book>>
    /\ UNCHANGED <<cacheVars, scanVars, procVars, postVars, engVars, histVars, collVars, unitVars>>

\* rpc returned a page: push its items, then stop or ask for the next page
ListPage ==
    /\ lst.pc = "await"
    /\ rpcCall.pc = "returned"
    /\ LET page == normalizeListResult(book, rpcCall.page)
           out == PushItems(lst.out, rpcCall.page, page.n)
       IN  IF page.nextCursor \in {NoCursor, EmptyCursor}
           THEN /\ lst' = [lst EXCEPT !.pc = "returned", !.out = out, !.result = out]
                /\ UNCHANGED <<rpcCall, nextId, wire, replies>>
           ELSE IF ItemCount(out) > ListCap
           THEN /\ lst' = [lst EXCEPT !.pc = "returned", !.out = out, !.result = out,
                                      !.cursor = page.nextCursor]
                /\ UNCHANGED <<rpcCall, nextId, wire, replies>>
           ELSE /\ lst' = [lst EXCEPT !.out = out, !.cursor = page.nextCursor,
                                      !.asked = Append(@, page.nextCursor)]
                /\ RpcBegin(page.nextCursor, lst.opt)
    /\ UNCHANGED book
    /\ UNCHANGED <<cacheVars, scanVars, procVars, postVars, engVars, histVars, collVars, unitVars>>

\* rpc threw: an empty list for method-not-found, the error otherwise
ListFail ==
    /\ lst.pc = "await"
    /\ rpcCall.pc = "thrown"
    /\ IF isMethodNotFound(rpcCall.error)
       THEN lst' = [lst EXCEPT !.pc = "returned", !.notFound = TRUE, !.result = <<>>]
       ELSE lst' = [lst EXCEPT !.pc = "thrown", !.error = rpcCall.error]
    /\ UNCHANGED <<rpcCall, nextId, wire, replies, book>>
    /\ UNCHANGED <<cacheVars, scanVars, procVars, postVars, engVars, histVars, collVars, unitVars>>

(***************************************************************************)
(* collectFromServer (collect.ts, src/unnamed/part_009): initialize, then  *)
(* one listAll per kind of the scan list.                                  *)
(***************************************************************************)
\* the kinds that are listed, in the order of the `if (scan.has(..))` blocks
ListKinds == <<"tools", "prompts", "resources">>

\* options.scan as parseMcpScanList gives it: the default, and two other lists
ScanLists == {{"tools", "instructions", "prompts"},
              {"prompts", "resources"},
              {"resources"}}

NoReply == [net |-> FALSE, status |-> 0, body |-> "none", code |-> NoCode, page |-> 0]

\* collected.<kind> before its listAll has returned: the empty array
NotListed == [listed |-> FALSE, empty |-> TRUE, lastReply |-> NoReply]

CollOff == [pc |-> "off", scan |-> {}, opt |-> Unset, initialize |-> FALSE,
            kind |-> 0, collected |-> [k \in 1..Len(ListKinds) |-> NotListed]]

\* the next `if (scan.has(kind))` block whose listAll has not run; 0: none left
RECURSIVE NextKind(_, _)
NextKind(c, k) ==
    IF k > Len(ListKinds) THEN 0
    ELSE IF ListKinds[k] \in c.scan /\ ~c.collected[k].listed /\ k > c.kind THEN k
    ELSE NextKind(c, k + 1)

\* collectFromServer is called; bestEffortInitialize gives the instructions
\* or, whatever goes wrong, undefined
CollectCall(scan, opt, init) ==
    /\ coll.pc = "idle"
    /\ init => "instructions" \in scan
    /\ coll' = [coll EXCEPT !.pc = "running", !.scan = scan, !.opt = opt,
                            !.initialize = init]
    /\ UNCHANGED <<mcpVars, multi>>
    /\ UNCHANGED <<cacheVars, scanVars, procVars, postVars, engVars, histVars, unitVars>>

\* `collected.<kind> = await listAll(url, "<kind>/list", ..)`: listAll sends
\* its first request to the server, which has some pages of that kind
CollectList ==
    /\ coll.pc = "running"
    /\ lst.pc = "off"
    /\ NextKind(coll, 1) # 0
    /\ coll' = [coll EXCEPT !.kind = NextKind(coll, 1)]
    /\ lst' = [OffList EXCEPT !.pc = "await", !.opt = coll.opt, !.asked = <<NoCursor>>]
    /\ book' \in Books
    /\ RpcBegin(NoCursor, coll.opt)
    /\ UNCHANGED multi
    /\ UNCHANGED <<cacheVars, scanVars, procVars, postVars, engVars, histVars, unitVars>>

\* listAll returned: its list is assigned to collected.<kind>
CollectStore ==
    /\ coll.pc = "running"
    /\ lst.pc = "returned"
    /\ coll' = [coll EXCEPT !.collected[coll.kind] =
                    [listed |-> TRUE, empty |-> ItemCount(lst.result) = 0,
                     lastReply |-> replies[Len(replies)]]]
    /\ lst' = OffList
    /\ rpcCall' = IdleRpc
    /\ wire' = <<>>
    /\ replies' = <<>>
    /\ book' = <<>>
    /\ UNCHANGED <<nextId, multi>>
    /\ UNCHANGED <<cacheVars, scanVars, procVars, postVars, engVars, histVars, unitVars>>

\* listAll threw: collectFromServer has no catch around it
CollectThrow ==
    /\ coll.pc = "running"
    /\ lst.pc = "thrown"
    /\ coll' = [coll EXCEPT !.pc = "thrown"]
    /\ UNCHANGED <<mcpVars, multi>>
    /\ UNCHANGED <<cacheVars, scanVars, procVars, postVars, engVars, histVars, unitVars>>

\* no kind is left: `return collected` (reading the resources cannot throw:
\* every error of resources/read is caught)
CollectReturn ==
    /\ coll.pc = "running"
    /\ lst.pc = "off"
    /\ NextKind(coll, 1) = 0
    /\ coll' = [coll EXCEPT !.pc = "returned"]
    /\ UNCHANGED <<mcpVars, multi>>
    /\ UNCHANGED <<cacheVars, scanVars, procVars, postVars, engVars, histVars, unitVars>>

\* runMcpRemoteMultiScan: its options and its locals before it is called
\* options.enableMeta, and options.failOn: not given, or the lowest severity
MultiOptions == [enableMeta : BOOLEAN, failOn : BOOLEAN]

MultiOff == [pc |-> "off", servers |-> <<>>, opt |-> [enableMeta |-> FALSE, failOn |-> FALSE],
             i |-> 0, plans |-> <<>>, totalFiles |-> 0, scanned |-> <<>>,
             allFindings |-> <<>>, exitCode |-> 0,
             result |-> [set |-> FALSE, targets |-> <<>>, findings |-> <<>>,
                         scannedFiles |-> 0]]

\* no collectFromServer, no runMcpRemoteMultiScan in progress
CollectOff == coll = CollOff /\ multi = MultiOff

(***************************************************************************)
(* SpecRpc: one call of rpc against a server that answers as it likes.     *)
(***************************************************************************)
NextRpc ==
    \/ \E opt \in RetryOptions : DirectCall(opt)
    \/ \E r \in Responses : DirectReply(r)
    \/ RpcRetry

(***************************************************************************)
(* SpecList: one call of listAll against a server with a book of pages,    *)
(* whose requests can fail.                                                *)
(***************************************************************************)
NextList ==
    \/ ListCall
    \/ \E r \in ListReplies(rpcCall.params) : ListReply(r)
    \/ RpcRetry
    \/ ListPage
    \/ ListFail

(***************************************************************************)
(* The signature engine on one file: scanContent (src/src/scanner/engine/  *)
(* rule-engine.ts) under the rules that scanFile takes from an array or    *)
(* from the IndexedRuleEngine (src/src/scanner/cache.ts).  A rule is known *)
(* by its place in the catalog; a pattern by the matches its regex finds.  *)
(***************************************************************************)
\* the type of the scanned file, and the file_types lists of the modelled rules
ScannedType == "markdown"
FileTypeLists == {<<"any">>, <<"markdown">>, <<"python">>, <<"markdown", "markdown">>}

\* a pattern: its regex matches n times, at the offsets first, first + 1, ...
PatternKinds == [n : {1, MaxFindingsPerRulePerFile + 1}, first : {0, 50}]

\* a rule; mixed: some of its matches are empty, some hit an exclude pattern
RuleKinds == [file_types : FileTypeLists, mixed : BOOLEAN,
              patterns : SeqsUpTo(PatternKinds, MaxPatterns) \ {<<>>}]

\* the rule files: n rules at most, one at least
Catalogs(n) == SeqsUpTo(RuleKinds, n) \ {<<>>}

\* the i-th match of a pattern of the rule: a hit, an empty match, or a match
\* that one of the rule's exclude patterns matches
MatchKind(rule, i) ==
    IF ~rule.mixed THEN "hit"
    ELSE IF i % 4 = 2 THEN "excluded"
    ELSE IF i % 4 = 0 THEN "empty"
    ELSE "hit"

\* what regex.exec returns call after call, until it returns null
Matches(rule, pat) ==
    [i \in 1..pat.n |-> [index |-> pat.first + i - 1, kind |-> MatchKind(rule, i)]]

\* indexToLine for a content whose lines are all LineWidth characters long
LineWidth == 10
indexToLine(position) == (position \div LineWidth) + 1

\* isFileTypeMatch
isFileTypeMatch(rule, fileType) ==
    \E i \in 1..Len(rule.file_types) : rule.file_types[i] \in {fileType, "any"}

\* the `while ((match = execWithTimeout(...)) !== null)` loop of one regex:
\* the hits of the rule so far and the findings.  An empty or excluded match
\* is passed over; a hit is pushed, and the loop breaks after the push that
\* brings ruleHits to MaxFindingsPerRulePerFile
execLoop(ms, ruleId, ruleHits, out) ==
    LET hits  == SelectSeq(ms, LAMBDA m : m.kind \notin {"empty", "excluded"})
        room  == IF ruleHits + 1 >= MaxFindingsPerRulePerFile
                 THEN 1 ELSE MaxFindingsPerRulePerFile - ruleHits
        taken == IF Len(hits) < room THEN Len(hits) ELSE room
    IN  [ruleHits |-> ruleHits + taken,
         findings |-> out \o [i \in 1..taken |->
                                 [ruleId |-> ruleId, file |-> 1,
                                  line |-> indexToLine(hits[i].index)]]]

RECURSIVE compiledLoop(_, _, _, _, _)
\* `for (const regex of rule._compiled)` from pattern k on
compiledLoop(rule, ruleId, k, ruleHits, out) ==
    IF k > Len(rule.patterns) THEN out
    ELSE LET r == execLoop(Matches(rule, rule.patterns[k]), ruleId, ruleHits, out)
         IN  IF r.ruleHits >= MaxFindingsPerRulePerFile THEN r.findings
             ELSE compiledLoop(rule, ruleId, k + 1, r.ruleHits, r.findings)

RECURSIVE rulesLoop(_, _, _, _)
\* `for (const rule of rules)`: ids is the list of the rules handed over
rulesLoop(catalogue, ids, fileType, out) ==
    IF Len(ids) = 0 THEN out
    ELSE LET rule == catalogue[Head(ids)]
         IN  rulesLoop(catalogue, Tail(ids), fileType,
                       IF isFileTypeMatch(rule, fileType)
                       THEN compiledLoop(rule, Head(ids), 1, 0, out)
                       ELSE out)

\* scanContent
scanContent(catalogue, ids, fileType) == rulesLoop(catalogue, ids, fileType, <<>>)

\* the rules in declaration order
getAllRules(catalogue) == [i \in 1..Len(catalogue) |-> i]

\* IndexedRuleEngine: this.universalRules
universalRules(catalogue) ==
    SelectSeq(getAllRules(catalogue),
              LAMBDA i : \E j \in 1..Len(catalogue[i].file_types) :
                             catalogue[i].file_types[j] = "any")

RECURSIVE rulesByFileType(_, _, _)
\* IndexedRuleEngine: this.rulesByFileType.get(fileType), built from rule i on:
\* a rule without "any" is pushed once per entry of its file_types
rulesByFileType(catalogue, i, fileType) ==
    IF i > Len(catalogue) THEN <<>>
    ELSE (IF \E j \in 1..Len(catalogue[i].file_types) : catalogue[i].file_types[j] = "any"
          THEN <<>>
          ELSE [j \in 1..Len(SelectSeq(catalogue[i].file_types,
                                       LAMBDA t : t = fileType)) |-> i])
         \o rulesByFileType(catalogue, i + 1, fileType)

\* IndexedRuleEngine.getRulesForFileType
getRulesForFileType(catalogue, fileType) ==
    universalRules(catalogue) \o rulesByFileType(catalogue, 1, fileType)

\* scanFile: `Array.isArray(rules) ? rules : rules.getRulesForFileType(fileType)`
applicableRules(catalogue, asArray, fileType) ==
    IF asArray THEN getAllRules(catalogue) ELSE getRulesForFileType(catalogue, fileType)

\* no file handed to the engine
EngOff == eng = [pc |-> "off", rules |-> <<>>, findings |-> <<>>]

InitEngine ==
    eng \in {[pc |-> "ready", rules |-> c, findings |-> <<>>] : c \in Catalogs(MaxRules)}

\* scanFile(filePath, rules) with the rules as an array (scanFilesParallel) or
\* as the IndexedRuleEngine (the worker of the bounded-concurrency branch)
ScanFile(asArray) ==
    /\ eng.pc = "ready"
    /\ eng' = [eng EXCEPT !.pc = IF asArray THEN "array" ELSE "indexed",
                          !.findings = scanContent(eng.rules,
                                           applicableRules(eng.rules, asArray, ScannedType),
                                           ScannedType)]
    /\ UNCHANGED <<cacheVars, scanVars, mcpVars, procVars, postVars, histVars, collVars, unitVars>>

(***************************************************************************)
(* The process and its signals (createActiveTui, src/src/utils/tui/        *)
(* index.ts): with the TUI enabled a handler for SIGINT, SIGTERM and       *)
(* SIGHUP is registered; without it the signals keep their default action. *)
(***************************************************************************)
Signals == {"SIGINT", "SIGTERM", "SIGHUP"}

\* the number of a signal: a process killed by it ends with status 128 + number
SignalNumber(sig) == IF sig = "SIGHUP" THEN 1 ELSE IF sig = "SIGINT" THEN 2 ELSE 15

\* a process that runs a scan; tui: createTui was called with enabled = true
ProcStart == [tui |-> FALSE, state |-> "running", signal |-> "none", exitCode |-> 0,
              cursorShown |-> FALSE]

\* the process of a scan without the TUI that gets no signal
ProcOff == proc = ProcStart

Running == proc.state = "running"

\* a signal arrives during the scan: the handler writes the show-cursor
\* sequence and calls process.exit(0); without a handler the signal ends the
\* process
Signal(sig) ==
    /\ Running
    /\ main.pc \notin {"off", "done"}
    /\ IF proc.tui
       THEN proc' = [proc EXCEPT !.state = "exited", !.signal = sig, !.exitCode = 0,
                                 !.cursorShown = TRUE]
       ELSE proc' = [proc EXCEPT !.state = "killed", !.signal = sig,
                                 !.exitCode = 128 + SignalNumber(sig)]
    /\ UNCHANGED <<cacheVars, scanVars, mcpVars, postVars, engVars, histVars, collVars, unitVars>>

(***************************************************************************)
(* runScanInternal (src/src/cli/commands/scan.ts): the scan of the planned *)
(* targets, one step per awaited call.                                     *)
(***************************************************************************)
Workers == 1..NumWorkers

\* what the scan leaves alone: it uses the cache one awaited call at a time
lockVars == <<locks, waiters, mq, calls, saver, files, now, catalog>>

Min(a, b) == IF a <= b THEN a ELSE b
Max(a, b) == IF a >= b THEN a ELSE b

\* Array.prototype.slice(0, n): a negative n counts from the end
SliceTo(s, n) ==
    IF n >= 0 THEN SubSeq(s, 1, Min(n, Len(s)))
    ELSE SubSeq(s, 1, Max(Len(s) + n, 0))

\* getCachedFindings as one awaited call: the answer, the map and whether the
\* call marked the cache dirty
getCached(m, p, t, k, content) ==
    LET e == MapGet(m, p) IN
    IF ~MapHas(m, p)
    THEN [result |-> Miss, map |-> m, dirtied |-> FALSE]
    ELSE IF \/ e.ruleVersion # RuleVersion(k)
            \/ t - e.timestamp > MaxAge
            \/ e.hash # hashFile(p, content, t)
    THEN [result |-> Miss, map |-> MapDelete(m, p), dirtied |-> TRUE]
    ELSE [result |-> Hit(e.findings), map |-> m, dirtied |-> FALSE]

\* what scanFile reports for file p in this run
scanFile(p) == FindingsUnder(catalog, p, raw[p])

RECURSIVE scanFilesParallel(_)
\* Promise.all over the files, flattened in file order
scanFilesParallel(fs) ==
    IF Len(fs) = 0 THEN <<>>
    ELSE scanFile(Head(fs)) \o scanFilesParallel(Tail(fs))

\* the per-file limit: `fileFindings.slice(0, config.maxFindingsPerFile)`
EnforcePerFile(ff) ==
    IF Len(ff) > MaxFindingsPerFile THEN SliceTo(ff, MaxFindingsPerFile) ELSE ff

RECURSIVE MetaKeep(_, _)
MetaKeep(fs, seen) ==
    IF Len(fs) = 0 THEN <<>>
    ELSE IF Head(fs) \in seen THEN MetaKeep(Tail(fs), seen)
    ELSE <<Head(fs)>> \o MetaKeep(Tail(fs), seen \cup {Head(fs)})

\* the first finding of every (ruleId, file, line, message) key, in order
applyMetaAnalyzer(fs) == MetaKeep(fs, {})

\* the confidence scores, in percent, and the thresholds of the modelled runs
ConfLevels == {30, 90}
MinConfidenceChoices == {Unset, SetTo(50)}

PostChoices == [showConfidence : BOOLEAN, minConfidence : MinConfidenceChoices,
                fix : BOOLEAN, conf : [Paths -> ConfLevels]]

\* a run without --fix and without confidence scores
PostNone == [showConfidence |-> FALSE, minConfidence |-> Unset, fix |-> FALSE,
             conf |-> [p \in Paths |-> 90]]

PostOff == post = PostNone /\ fixedLines = {}

\* the score addConfidenceScores attaches to finding f
Confidence(f) == post.conf[f.file]

\* filterByConfidence
filterByConfidence(fs, minConfidence) ==
    SelectSeq(fs, LAMBDA f : Confidence(f) >= minConfidence)

\* applyFixes: the lines it comments out, those of the findings in files it
\* can read
applyFixes(fs) ==
    {<<fs[i].file, fs[i].line>> : i \in {j \in 1..Len(fs) : files[fs[j].file] # 0}}

\* the bytes of a file after lines of it were commented out
CommentedOut(content) == (content % NumContents) + 1

\* the plans of a run: the files 1..NumPaths, sorted, as one target or two
PlanChoices ==
    LET all == [i \in 1..NumPaths |-> i] IN
    {<<all>>} \cup {<<SubSeq(all, 1, j), SubSeq(all, j + 1, NumPaths)>> : j \in 1..(NumPaths - 1)}

OptChoices == [parallel : BOOLEAN, cacheOn : BOOLEAN, meta : BOOLEAN]

StartMain == [pc |-> "loop", i |-> 1, k |-> 1, cachedFindings |-> <<>>,
              uncachedFiles |-> <<>>, newFindings |-> <<>>, skillFindings |-> <<>>]
IdleWorker == [pc |-> "end", file |-> 0, ff |-> <<>>]
NoResult == [done |-> FALSE, findings |-> <<>>]

\* the first await of a worker on a file: the cache, or the scan without one
FirstPc == IF opts.cacheOn THEN "get" ELSE "scan"

InitScan ==
    /\ plans \in PlanChoices
    /\ opts \in OptChoices
    /\ raw \in [Paths -> 0..MaxRaw]
    /\ main = StartMain
    /\ findings = <<>>
    /\ index = 0
    /\ workers = [w \in Workers |-> IdleWorker]
    /\ scanResult = NoResult

\* the state of the scan variables in the specifications of the cache alone
ScanOff ==
    /\ plans = <<>>
    /\ opts = [parallel |-> FALSE, cacheOn |-> TRUE, meta |-> FALSE]
    /\ raw = [p \in Paths |-> 0]
    /\ main = [StartMain EXCEPT !.pc = "off"]
    /\ findings = <<>>
    /\ index = 0
    /\ workers = [w \in Workers |-> IdleWorker]
    /\ scanResult = NoResult

\* the head of `for (let i = 0; i < scanPlans.length; i++)`: leave the loop, or
\* begin target i on one of the two branches
BeginTarget ==
    /\ main.pc = "loop"
    /\ IF main.i > Len(plans) \/ Len(findings) >= MaxTotalFindings
       THEN /\ main' = [main EXCEPT !.pc = "save"]
            /\ UNCHANGED <<index, workers>>
       ELSE LET fs == plans[main.i] IN
            IF opts.parallel /\ Len(fs) >= ParallelThreshold
            THEN /\ main' = [main EXCEPT
                        !.pc = IF opts.cacheOn THEN "pGet" ELSE "pScan",
                        !.k = 1, !.cachedFindings = <<>>, !.newFindings = <<>>,
                        !.uncachedFiles = IF opts.cacheOn THEN <<>> ELSE fs,
                        !.skillFindings = <<>>]
                 /\ UNCHANGED <<index, workers>>
            ELSE \* every worker runs up to its first await, in order
                 /\ main' = [main EXCEPT !.pc = "join", !.skillFindings = <<>>]
                 /\ index' = Min(NumWorkers, Len(fs))
                 /\ workers' = [w \in Workers |->
                        IF w <= Len(fs)
                        THEN [pc |-> FirstPc, file |-> fs[w], ff |-> <<>>]
                        ELSE IdleWorker]
    /\ UNCHANGED <<cache, dirty, disk, plans, opts, raw, findings, scanResult, run,
                   maxEntries>>
    /\ UNCHANGED <<lockVars, mcpVars, procVars, postVars, engVars, histVars, collVars, unitVars>>

\* parallel branch: `await cache.getCachedFindings(filePath)` for the next file
ParallelGet ==
    /\ main.pc = "pGet"
    /\ LET fs == plans[main.i]
           p == fs[main.k]
           r == getCached(cache, p, now, catalog, files[p])
       IN  /\ cache' = r.map
           /\ dirty' = (dirty \/ r.dirtied)
           /\ main' = [main EXCEPT
                  !.cachedFindings = IF r.result.hit THEN @ \o r.result.findings ELSE @,
                  !.uncachedFiles = IF r.result.hit THEN @ ELSE Append(@, p),
                  !.k = @ + 1,
                  !.pc = IF main.k = Len(fs) THEN "pScan" ELSE "pGet"]
    /\ UNCHANGED <<disk, plans, opts, raw, findings, index, workers, scanResult, run,
                   maxEntries>>
    /\ UNCHANGED <<lockVars, mcpVars, procVars, postVars, engVars, histVars, collVars, unitVars>>

\* parallel branch: `await scanFilesParallel(uncachedFiles, ...)`, or nothing
\* to scan
ParallelScan ==
    /\ main.pc = "pScan"
    /\ IF Len(main.uncachedFiles) = 0
       THEN main' = [main EXCEPT !.pc = "post", !.skillFindings = main.cachedFindings]
       ELSE main' = [main EXCEPT
                !.newFindings = scanFilesParallel(main.uncachedFiles),
                !.k = 1,
                !.pc = IF opts.cacheOn THEN "pSet" ELSE "pAssemble"]
    /\ UNCHANGED <<cache, dirty, disk, plans, opts, raw, findings, index, workers,
                   scanResult, run, maxEntries>>
    /\ UNCHANGED <<lockVars, mcpVars, procVars, postVars, engVars, histVars, collVars, unitVars>>

\* parallel branch: the per-file limit and `await cache.setCachedFindings`
\* for the next scanned file
ParallelSet ==
    /\ main.pc = "pSet"
    /\ LET p == main.uncachedFiles[main.k]
           ff == EnforcePerFile(SelectSeq(main.newFindings, LAMBDA f : f.file = p))
       IN  cache' = doSetInsert(cache, p, hashFile(p, files[p], now), ff, now, catalog,
                                maxEntries)
    /\ dirty' = TRUE
    /\ main' = [main EXCEPT !.k = @ + 1,
                            !.pc = IF main.k = Len(main.uncachedFiles)
                                   THEN "pAssemble" ELSE "pSet"]
    /\ UNCHANGED <<disk, plans, opts, raw, findings, index, workers, scanResult, run,
                   maxEntries>>
    /\ UNCHANGED <<lockVars, mcpVars, procVars, postVars, engVars, histVars, collVars, unitVars>>

\* parallel branch: the total limit on the new findings, then
\* `skillFindings = [...cachedFindings, ...limitedNewFindings]`
ParallelAssemble ==
    /\ main.pc = "pAssemble"
    /\ LET remainingCapacity == MaxTotalFindings - Len(findings)
           limitedNewFindings == SliceTo(main.newFindings, remainingCapacity)
       IN  main' = [main EXCEPT !.pc = "post",
                                !.skillFindings = main.cachedFindings \o limitedNewFindings]
    /\ UNCHANGED <<cache, dirty, disk, plans, opts, raw, findings, index, workers,
                   scanResult, run, maxEntries>>
    /\ UNCHANGED <<lockVars, mcpVars, procVars, postVars, engVars, histVars, collVars, unitVars>>

\* worker: from the per-file limit to the next turn of `while (index < ...)`
WorkerFinish(w, ff) ==
    LET fs == plans[main.i]
        fileFindings == EnforcePerFile(ff)
        remainingCapacity == MaxTotalFindings - Len(findings) - Len(main.skillFindings)
        stop == Len(fileFindings) > 0 /\ remainingCapacity <= 0
        findingsToAdd == IF Len(fileFindings) > 0 /\ remainingCapacity > 0
                         THEN SliceTo(fileFindings, remainingCapacity) ELSE <<>>
    IN  /\ main' = [main EXCEPT !.skillFindings = @ \o findingsToAdd]
        /\ IF ~stop /\ index < Len(fs)
           THEN /\ workers' = [workers EXCEPT ![w] =
                                  [pc |-> FirstPc, file |-> fs[index + 1], ff |-> <<>>]]
                /\ index' = index + 1
           ELSE /\ workers' = [workers EXCEPT ![w] = IdleWorker]
                /\ UNCHANGED index

\* worker: `await cache.getCachedFindings(filePath)`
WorkerGet(w) ==
    /\ main.pc = "join"
    /\ workers[w].pc = "get"
    /\ LET p == workers[w].file
           r == getCached(cache, p, now, catalog, files[p])
       IN  /\ cache' = r.map
           /\ dirty' = (dirty \/ r.dirtied)
           /\ IF r.result.hit
              THEN WorkerFinish(w, r.result.findings)
              ELSE /\ workers' = [workers EXCEPT ![w].pc = "scan"]
                   /\ UNCHANGED <<main, index>>
    /\ UNCHANGED <<disk, plans, opts, raw, findings, scanResult, run, maxEntries>>
    /\ UNCHANGED <<lockVars, mcpVars, procVars, postVars, engVars, histVars, collVars, unitVars>>

\* worker: `await scanFile(filePath, indexedRules, options)`
WorkerScan(w) ==
    /\ main.pc = "join"
    /\ workers[w].pc = "scan"
    /\ IF opts.cacheOn
       THEN /\ workers' = [workers EXCEPT ![w].pc = "set",
                                          ![w].ff = scanFile(workers[w].file)]
            /\ UNCHANGED <<main, index>>
       ELSE WorkerFinish(w, scanFile(workers[w].file))
    /\ UNCHANGED <<cache, dirty, disk, plans, opts, raw, findings, scanResult, run,
                   maxEntries>>
    /\ UNCHANGED <<lockVars, mcpVars, procVars, postVars, engVars, histVars, collVars, unitVars>>

\* worker: `await cache.setCachedFindings(filePath, fileFindings)`
WorkerSet(w) ==
    /\ main.pc = "join"
    /\ workers[w].pc = "set"
    /\ LET p == workers[w].file IN
       cache' = doSetInsert(cache, p, hashFile(p, files[p], now), workers[w].ff, now,
                            catalog, maxEntries)
    /\ dirty' = TRUE
    /\ WorkerFinish(w, workers[w].ff)
    /\ UNCHANGED <<disk, plans, opts, raw, findings, scanResult, run, maxEntries>>
    /\ UNCHANGED <<lockVars, mcpVars, procVars, postVars, engVars, histVars, collVars, unitVars>>

\* `await Promise.all(...)` of the workers
Join ==
    /\ main.pc = "join"
    /\ \A w \in Workers : workers[w].pc = "end"
    /\ main' = [main EXCEPT !.pc = "post"]
    /\ UNCHANGED <<cache, dirty, disk, plans, opts, raw, findings, index, workers,
                   scanResult, run, maxEntries>>
    /\ UNCHANGED <<lockVars, mcpVars, procVars, postVars, engVars, histVars, collVars, unitVars>>

\* the per-target post-pass and `findings.push(...displayFindings)`
PostTarget ==
    /\ main.pc = "post"
    /\ LET filteredSkillFindings == IF opts.meta THEN applyMetaAnalyzer(main.skillFindings)
                                    ELSE main.skillFindings
           \* addConfidenceScores attaches to each finding the score that
           \* Confidence gives; it drops none
           displayFindings == filteredSkillFindings
       IN  /\ IF post.fix /\ Len(displayFindings) > 0
              THEN /\ fixedLines' = fixedLines \cup applyFixes(displayFindings)
                   /\ files' = [p \in Paths |->
                                   IF \E l \in 1..MaxRaw : <<p, l>> \in applyFixes(displayFindings)
                                   THEN CommentedOut(files[p]) ELSE files[p]]
              ELSE UNCHANGED <<fixedLines, files>>
           /\ findings' = findings \o displayFindings
    /\ main' = [main EXCEPT !.pc = "loop", !.i = @ + 1]
    /\ UNCHANGED <<cache, dirty, disk, plans, opts, raw, index, workers, scanResult, run,
                   maxEntries>>
    /\ UNCHANGED <<locks, waiters, mq, calls, saver, now, catalog, post>>
    /\ UNCHANGED <<mcpVars, procVars, engVars, histVars, collVars, unitVars>>

\* `if (cache) await cache.save()`
ScanSave ==
    /\ main.pc = "save"
    /\ IF opts.cacheOn /\ dirty
       THEN /\ disk' = [state |-> "ok", data |-> cache]
            /\ dirty' = FALSE
       ELSE UNCHANGED <<disk, dirty>>
    /\ main' = [main EXCEPT !.pc = "final"]
    /\ UNCHANGED <<cache, plans, opts, raw, findings, index, workers, scanResult, run,
                   maxEntries>>
    /\ UNCHANGED <<lockVars, mcpVars, procVars, postVars, engVars, histVars, collVars, unitVars>>

\* `tui.finish()`, the final filter and the result
Finalize ==
    /\ main.pc = "final"
    /\ LET filteredFindings == IF opts.meta THEN applyMetaAnalyzer(findings)
                               ELSE findings
       IN  scanResult' =
               [done |-> TRUE,
                findings |-> IF post.showConfidence /\ post.minConfidence.set
                             THEN filterByConfidence(filteredFindings,
                                                     post.minConfidence.value)
                             ELSE filteredFindings]
    /\ main' = [main EXCEPT !.pc = "done"]
    /\ proc' = [proc EXCEPT !.cursorShown = @ \/ proc.tui]
    /\ UNCHANGED <<cache, dirty, disk, plans, opts, raw, findings, index, workers, run,
                   maxEntries>>
    /\ UNCHANGED <<lockVars, mcpVars, postVars, engVars, histVars, collVars, unitVars>>

\* the next invocation: its targets and options, a new ScanCache, `cache.load()`
NewScanRun ==
    /\ main.pc = "done"
    /\ run < MaxRuns
    /\ run' = run + 1
    /\ plans' \in PlanChoices
    /\ opts' \in OptChoices
    /\ maxEntries' \in 1..MaxEntriesBound
    /\ cache' = IF opts'.cacheOn /\ disk.state = "ok"
                THEN LoadInto(<<>>, disk.data, now, catalog) ELSE <<>>
    /\ dirty' = FALSE
    /\ main' = StartMain
    /\ findings' = <<>>
    /\ index' = 0
    /\ workers' = [w \in Workers |-> IdleWorker]
    /\ scanResult' = NoResult
    /\ UNCHANGED <<disk, raw>>
    /\ UNCHANGED <<lockVars, mcpVars, procVars, postVars, engVars, histVars, collVars, unitVars>>

(***************************************************************************)
(* scanFile on files that cannot be scanned, and its callers:              *)
(* scanFilesParallel (parallel-scanner.ts) and the worker of the           *)
(* bounded-concurrency branch (scan.ts).                                   *)
(***************************************************************************)

\* a planned file: its extension and what is wrong with it
FileExts == {".md", ".exe"}
FileFaults == {"none", "unsafe", "tooLarge", "unreadable", "nullByte"}
FileStates == [ext : FileExts, fault : FileFaults]

\* `files.length < 10` of scanFilesParallel, scaled to the batches explored
SmallBatch == 3
MaxBatch == 3

\* a settled promise of scanFile
Resolved(fs) == [thrown |-> FALSE, findings |-> fs]
Rejected == [thrown |-> TRUE, findings |-> <<>>]

detectFileType(f) == IF f.ext = ".exe" THEN "binary" ELSE "markdown"

\* scanFile on the i-th file of the batch.  A text file that can be read holds
\* one match; `scanContent("binary", ...)` scans the word "binary", no match.
scanFileOutcome(i, f) ==
    IF f.fault = "unsafe" THEN Resolved(<<>>)                 \* isSafePath
    ELSE IF detectFileType(f) = "binary"
    THEN IF f.fault \in {"tooLarge", "unreadable"}
         THEN Rejected                                        \* readBytes, outside any try
         ELSE Resolved(<<>>)
    ELSE IF f.fault = "nullByte" THEN Resolved(<<>>)          \* hasNullByte
    ELSE IF f.fault \in {"tooLarge", "unreadable"}
    THEN Resolved(<<>>)                                       \* readText, inside the try
    ELSE Resolved(<<[file |-> i, line |-> 1]>>)

RECURSIVE FlatFrom(_, _)
\* `results.flat()` from the i-th file on; a caught rejection counts as []
FlatFrom(fs, i) ==
    IF i > Len(fs) THEN <<>>
    ELSE scanFileOutcome(i, fs[i]).findings \o FlatFrom(fs, i + 1)

BatchOff == [pc |-> "off", caller |-> "none", files |-> <<>>, k |-> 0, findings |-> <<>>]

InitBatch ==
    batch \in {[BatchOff EXCEPT !.pc = "call", !.caller = c, !.files = fs, !.k = 1] :
                  c \in {"scanFilesParallel", "worker"},
                  fs \in SeqsUpTo(FileStates, MaxBatch) \ {<<>>}}

\* scanFilesParallel(uncachedFiles, ...): Promise.all over scanFile for a small
\* batch, chunks scanned with `.catch(() => [])` otherwise
ScanFilesParallel ==
    /\ batch.pc = "call"
    /\ batch.caller = "scanFilesParallel"
    /\ IF Len(batch.files) < SmallBatch
       THEN IF \E i \in 1..Len(batch.files) : scanFileOutcome(i, batch.files[i]).thrown
            THEN batch' = [batch EXCEPT !.pc = "thrown"]
            ELSE batch' = [batch EXCEPT !.pc = "returned",
                                        !.findings = FlatFrom(batch.files, 1)]
       ELSE batch' = [batch EXCEPT !.pc = "returned",
                                   !.findings = FlatFrom(batch.files, 1)]
    /\ UNCHANGED <<cacheVars, scanVars, mcpVars, procVars, postVars, engVars, histVars,
                   collVars, unitsBut_batch>>

\* one turn of the worker's `while (index < plan.files.length)`: scanFile
\* inside try / catch
WorkerTurn ==
    /\ batch.pc = "call"
    /\ batch.caller = "worker"
    /\ LET r == scanFileOutcome(batch.k, batch.files[batch.k]) IN
       batch' = [batch EXCEPT !.findings = IF r.thrown THEN @ ELSE @ \o r.findings,
                              !.k = @ + 1,
                              !.pc = IF batch.k = Len(batch.files) THEN "returned" ELSE "call"]
    /\ UNCHANGED <<cacheVars, scanVars, mcpVars, procVars, postVars, engVars, histVars,
                   collVars, unitsBut_batch>>

(***************************************************************************)
(* The end of a scan: the reported result and the exit code                *)
(* (scan.ts 252-283, checkFailCondition, shouldFail, parseSeverity).       *)
(***************************************************************************)

Severities == <<"LOW", "MEDIUM", "HIGH", "CRITICAL">>
SEVERITY_RANK == [LOW |-> 1, MEDIUM |-> 2, HIGH |-> 3, CRITICAL |-> 4]

\* what follows --fail-on on the command line ("": the flag is absent)
FailOnArgs == {"", "low", "HIGH", "critical", "bogus"}

toUpperCase(value) ==
    CASE value = "low" -> "LOW"
      [] value = "critical" -> "CRITICAL"
      [] value = "bogus" -> "BOGUS"
      [] OTHER -> value

NoSeverity == [set |-> FALSE, value |-> ""]

parseSeverity(value) ==
    IF value = "" THEN NoSeverity
    ELSE IF toUpperCase(value) \in {"LOW", "MEDIUM", "HIGH", "CRITICAL"}
    THEN [set |-> TRUE, value |-> toUpperCase(value)]
    ELSE NoSeverity

\* shouldFail with `>` for `>=`: strictly above the threshold
shouldFailAbove(fs, threshold) ==
    IF ~threshold.set THEN FALSE
    ELSE \E i \in 1..Len(fs) :
            SEVERITY_RANK[fs[i].severity] > SEVERITY_RANK[threshold.value]

shouldFail(fs, threshold) ==
    IF ~threshold.set THEN FALSE
    ELSE \E i \in 1..Len(fs) :
            SEVERITY_RANK[fs[i].severity] >= SEVERITY_RANK[threshold.value]

MaxEnding == 2

\* a finding at the end of the scan: its severity and its confidence score
EndFindings == [severity : {Severities[i] : i \in 1..4}, confidence : ConfLevels]

EndingOff == [pc |-> "off", failOn |-> NoSeverity, showConfidence |-> FALSE,
              minConfidence |-> Unset, findings |-> <<>>, result |-> <<>>]

InitEnding ==
    ending \in {[EndingOff EXCEPT !.pc = "filter", !.failOn = parseSeverity(a),
                                  !.showConfidence = sc, !.minConfidence = mc,
                                  !.findings = fs] :
                   a \in FailOnArgs, sc \in BOOLEAN, mc \in MinConfidenceChoices,
                   fs \in SeqsUpTo(EndFindings, MaxEnding)}

\* runScanInternal after the targets: the confidence filter and `result`
FilterFindings ==
    /\ ending.pc = "filter"
    /\ ending' = [ending EXCEPT
           !.pc = "check",
           !.result = IF ending.showConfidence /\ ending.minConfidence.set
                      THEN SelectSeq(ending.findings,
                               LAMBDA f : f.confidence >= ending.minConfidence.value)
                      ELSE ending.findings]
    /\ UNCHANGED <<cacheVars, scanVars, mcpVars, procVars, postVars, engVars, histVars,
                   collVars, unitsBut_ending>>

\* handleScanOutput(result, ..); checkFailCondition(result, options)
CheckFailCondition ==
    /\ ending.pc = "check"
    /\ proc' = IF shouldFail(ending.result, ending.failOn)
               THEN [proc EXCEPT !.exitCode = 2] ELSE proc
    /\ ending' = [ending EXCEPT !.pc = "done"]
    /\ UNCHANGED <<cacheVars, scanVars, mcpVars, postVars, engVars, histVars,
                   collVars, unitsBut_ending>>

(***************************************************************************)
(* resources/read: pickTextContent and what collectFromServer stores       *)
(* (part_009 89-101, 152-184).  A string is its UTF-16 code units.         *)
(***************************************************************************)

MaxChars == 2
MaxItems == 2
MaxResourceBytesOpt == 3

\* characters by their encodings: 1, 2 and 3 bytes in one code unit, and 4
\* bytes in a surrogate pair
CharKinds == {<<"ascii">>, <<"latin">>, <<"cjk">>, <<"high", "low">>}
Newline == <<"ascii">>

RECURSIVE byteLength(_)
\* new TextEncoder().encode(s).byteLength; a lone surrogate is encoded as
\* U+FFFD, three bytes
byteLength(s) ==
    IF Len(s) = 0 THEN 0
    ELSE IF Len(s) >= 2 /\ s[1] = "high" /\ s[2] = "low"
    THEN 4 + byteLength(SubSeq(s, 3, Len(s)))
    ELSE (CASE s[1] = "ascii" -> 1
            [] s[1] = "latin" -> 2
            [] OTHER -> 3) + byteLength(Tail(s))

\* s.slice(0, n): the first n code units
slice(s, n) == SubSeq(s, 1, IF n < Len(s) THEN n ELSE Len(s))

RECURSIVE Texts(_)
\* the strings of up to n characters
Texts(n) ==
    IF n = 0 THEN {<<>>}
    ELSE Texts(n - 1) \cup {t \o c : t \in Texts(n - 1), c \in CharKinds}

\* an item of raw.contents: one with a `text`, or one without (a blob)
NoText == [isText |-> FALSE, text |-> <<>>]
Items(n) == {NoText} \cup {[isText |-> TRUE, text |-> t] : t \in Texts(n)}

RECURSIVE join(_)
\* parts.join("\n")
join(parts) ==
    IF Len(parts) = 0 THEN <<>>
    ELSE IF Len(parts) = 1 THEN parts[1]
    ELSE parts[1] \o Newline \o join(Tail(parts))

NoContent == [stored |-> FALSE, content |-> <<>>]

pickTextContent(contents, maxBytes) ==
    LET items == SelectSeq(contents, LAMBDA item : item.isText)
        parts == [i \in 1..Len(items) |-> items[i].text]
        joined == join(parts)
    IN  IF Len(parts) = 0 THEN NoContent
        ELSE IF byteLength(joined) > maxBytes
        THEN [stored |-> TRUE, content |-> slice(joined, Max(0, maxBytes))]
        ELSE [stored |-> TRUE, content |-> joined]

ResOff == [pc |-> "off", contents |-> <<>>, maxResourceBytes |-> 0, entry |-> NoContent]

InitRes ==
    res \in {[ResOff EXCEPT !.pc = "read", !.contents = cs, !.maxResourceBytes = m] :
                cs \in SeqsUpTo(Items(MaxChars), MaxItems), m \in 1..MaxResourceBytesOpt}

\* one turn of `for (const resource of collected.resources)`: the read, then
\* `if (text) collected.resourceContents[resource.uri] = ..`
ReadResource(ok) ==
    /\ res.pc = "read"
    /\ LET text == pickTextContent(res.contents, res.maxResourceBytes) IN
       res' = [res EXCEPT
                  !.pc = IF ok THEN "stored" ELSE "skipped",
                  !.entry = IF ok /\ text.stored /\ Len(text.content) > 0
                            THEN text ELSE NoContent]
    /\ UNCHANGED <<cacheVars, scanVars, mcpVars, procVars, postVars, engVars, histVars,
                   collVars, unitsBut_res>>

(***************************************************************************)
(* One caller filling a ScanCache whose entry limit is out of reach, as in *)
(* critical-limits.test.ts 76-112: only the size limit evicts.             *)
(***************************************************************************)

MaxStorePaths == 3
MaxStoreSets == 4

\* `await cache.setCachedFindings(filePath, findings)` with no other call in
\* progress: hashFile, doSetCachedFindings, the lock set and deleted
SetCachedFindings(p, n) ==
    /\ now < MaxStoreSets
    /\ LET fs == FindingsUnder(catalog, p, n) IN
       /\ cache' = doSetInsert(cache, p, hashFile(p, 1, now), fs, now, catalog, maxEntries)
       /\ last' = [op |-> "set", path |-> p, findings |-> fs, at |-> now, content |-> 1]
    /\ dirty' = TRUE
    /\ now' = now + 1
    /\ UNCHANGED <<locks, waiters, mq, calls, saver, disk, files, maxEntries, catalog, run>>
    /\ UNCHANGED <<scanVars, mcpVars, procVars, postVars, engVars, collVars, unitVars>>

(***************************************************************************)
(* isExcluded: the exclude patterns of a rule are compiled with the flag   *)
(* "g" (rule-engine.ts 53-66), so each RegExp carries its lastIndex from   *)
(* one `re.test(match)` to the next.                                       *)
(***************************************************************************)

MaxMatchLen == 2
MaxExcludes == 2
MaxMatches == 3

\* a matched substring, by the offsets at which each exclude pattern occurs
\* in it (every occurrence is one character long)
Offsets == 0..(MaxMatchLen - 1)
MatchTexts(n) == [1..n -> SUBSET Offsets]

\* RegExp.prototype.test of a global regex: the search starts at lastIndex;
\* a success leaves lastIndex behind the occurrence, a failure resets it
test(occurrences, lastIndex) ==
    LET from == {o \in occurrences : o >= lastIndex} IN
    IF from = {} THEN [found |-> FALSE, lastIndex |-> 0]
    ELSE [found |-> TRUE,
          lastIndex |-> (CHOOSE o \in from : \A q \in from : o <= q) + 1]

RECURSIVE isExcluded(_, _, _)
\* rule._excludeCompiled.some((re) => re.test(match)), from the r-th regex on:
\* whether one matched, and the lastIndex of every regex afterwards
isExcluded(match, lastIndexes, r) ==
    IF r > Len(lastIndexes) THEN [excluded |-> FALSE, lastIndexes |-> lastIndexes]
    ELSE LET t == test(match[r], lastIndexes[r])
             after == [lastIndexes EXCEPT ![r] = t.lastIndex]
         IN  IF t.found THEN [excluded |-> TRUE, lastIndexes |-> after]
             ELSE isExcluded(match, after, r + 1)

ExclOff == [pc |-> "off", matches |-> <<>>, lastIndexes |-> <<>>, k |-> 0,
            findings |-> <<>>]

\* a rule with one or two exclude patterns, freshly loaded, and the matches
\* of its pattern in the content
InitExcl ==
    excl \in UNION {{[ExclOff EXCEPT !.pc = "exec", !.matches = ms, !.k = 1,
                                     !.lastIndexes = [r \in 1..n |-> 0]] :
                        ms \in SeqsUpTo(MatchTexts(n), MaxMatches) \ {<<>>}} :
                    n \in 1..MaxExcludes}

\* scanContent: one turn of the while loop on a non-empty match:
\* `if (isExcluded(rule, match[0])) continue;` or findings.push
ExecMatch ==
    /\ excl.pc = "exec"
    /\ LET r == isExcluded(excl.matches[excl.k], excl.lastIndexes, 1) IN
       excl' = [excl EXCEPT
                   !.lastIndexes = r.lastIndexes,
                   !.findings = IF r.excluded THEN @ ELSE Append(@, excl.k),
                   !.k = @ + 1,
                   !.pc = IF excl.k = Len(excl.matches) THEN "done" ELSE "exec"]
    /\ UNCHANGED <<cacheVars, scanVars, mcpVars, procVars, postVars, engVars, histVars,
                   collVars, unitsBut_excl>>

(***************************************************************************)
(* The visited-symlink set of path-safety.ts over the targets of one run   *)
(* (scan.ts 38: resetPathTracking, once, before the loop over the plans).  *)
(***************************************************************************)

MaxTargets == 2
MaxTargetFiles == 2
NumRealPaths == 2

\* a planned file: a regular file, or a symlink and the path it resolves to
PlannedFiles == {[symlink |-> FALSE, real |-> 0]}
                    \cup {[symlink |-> TRUE, real |-> r] : r \in 1..NumRealPaths}

TargetPlans(n) == SeqsUpTo(SeqsUpTo(PlannedFiles, MaxTargetFiles) \ {<<>>}, n) \ {<<>>}

\* isSafePath(path) as scanFile calls it, without a rootPath, on a file that
\* exists: the verdict and the visited set afterwards
isSafePath(f, visited) ==
    IF f.symlink
    THEN IF f.real \in visited
         THEN [safe |-> FALSE, reason |-> "Circular symlink detected", visited |-> visited]
         ELSE [safe |-> TRUE, reason |-> "", visited |-> visited \cup {f.real}]
    ELSE [safe |-> TRUE, reason |-> "", visited |-> visited]

WalkOff == [pc |-> "off", plans |-> <<>>, i |-> 0, k |-> 0, visitedPaths |-> {},
            circular |-> {}]

\* the module is loaded: the set may hold what an earlier use left in it
InitWalk ==
    walk \in {[WalkOff EXCEPT !.pc = "start", !.plans = ps, !.visitedPaths = v] :
                 ps \in TargetPlans(MaxTargets), v \in SUBSET (1..NumRealPaths)}

\* runScanInternal: resetPathTracking(), then the loop over the plans begins
ResetPathTracking ==
    /\ walk.pc = "start"
    /\ walk' = [walk EXCEPT !.pc = "scan", !.visitedPaths = {}, !.i = 1, !.k = 1]
    /\ UNCHANGED <<cacheVars, scanVars, mcpVars, procVars, postVars, engVars, histVars,
                   collVars, unitsBut_walk>>

\* scanFile on the next file of the current target: its isSafePath; after
\* the last file of a target the next target begins
SafetyCheck ==
    /\ walk.pc = "scan"
    /\ LET fs == walk.plans[walk.i]
           r == isSafePath(fs[walk.k], walk.visitedPaths)
           lastFile == walk.k = Len(fs)
       IN  walk' = [walk EXCEPT
                       !.visitedPaths = r.visited,
                       !.circular = IF r.safe THEN @ ELSE @ \cup {<<walk.i, walk.k>>},
                       !.k = IF lastFile THEN 1 ELSE @ + 1,
                       !.i = IF lastFile THEN @ + 1 ELSE @,
                       !.pc = IF lastFile /\ walk.i = Len(walk.plans)
                              THEN "done" ELSE "scan"]
    /\ UNCHANGED <<cacheVars, scanVars, mcpVars, procVars, postVars, engVars, histVars,
                   collVars, unitsBut_walk>>

(***************************************************************************)
(* listAll against any server: a server chooses the cursor of every page,  *)
(* so its pages may lead back to one another (part_009 30-59).  Only the   *)
(* length of `out` and the cursor are kept.                                *)
(***************************************************************************)

MaxServerPages == 2

\* the items of a page: none, half the cap, the cap
ServedSizes == {0, ListCap \div 2, ListCap}

\* a page: its items and its nextCursor (0: none, k: the cursor of page k)
ServedPages(n) == [n : ServedSizes, nextCursor : 0..n]

\* the servers of one to n pages
Servers(n) == UNION {[1..k -> ServedPages(k)] : k \in 1..n}

PagerOff == [pc |-> "off", server |-> <<>>, cursor |-> NoCursor, outLength |-> 0]

InitPager ==
    pager \in {[PagerOff EXCEPT !.pc = "loop", !.server = s] : s \in Servers(MaxServerPages)}

\* one turn of `while (true)`: the page is returned by rpc; push, then break
\* on a missing cursor or on more than 20000 items, or go round again
PageReturned ==
    /\ pager.pc = "loop"
    /\ LET page == pager.server[PageFor(pager.cursor)]
           length == pager.outLength + page.n
       IN  pager' = [pager EXCEPT
                        !.outLength = length,
                        !.cursor = IF page.nextCursor = 0 THEN @ ELSE page.nextCursor,
                        !.pc = IF page.nextCursor = 0 \/ length > ListCap
                               THEN "returned" ELSE "loop"]
    /\ UNCHANGED <<cacheVars, scanVars, mcpVars, procVars, postVars, engVars, histVars,
                   collVars, unitsBut_pager>>

\* one turn of `while (true)`: rpc throws; `return []` or `throw err`
PageThrown(e) ==
    /\ pager.pc = "loop"
    /\ pager' = [pager EXCEPT !.pc = IF isMethodNotFound(e) THEN "returned" ELSE "thrown",
                              !.outLength = 0]
    /\ UNCHANGED <<cacheVars, scanVars, mcpVars, procVars, postVars, engVars, histVars,
                   collVars, unitsBut_pager>>

(***************************************************************************)
(* The worker pool of the bounded-concurrency branch (scan.ts 163-216) on  *)
(* a plan with more files than workers.  Findings are counted.             *)
(***************************************************************************)

MaxPoolFiles == 3
PoolWorkers == 2

\* `index` for `index++`: the index is read and not advanced
indexKept(i) == i

\* `index++`: the value of index afterwards
indexIncremented(i) == i + 1

PoolOff == [pc |-> "off", cacheOn |-> FALSE, raw |-> <<>>, prior |-> 0, index |-> 0,
            workers |-> <<>>, skillFindings |-> 0, picked |-> <<>>]

PoolIdle == [pc |-> "end", file |-> 0, ff |-> 0]

\* a target of one to MaxPoolFiles files, what scanFile finds in each, and
\* the findings of the targets before it
InitPool ==
    pool \in {[PoolOff EXCEPT !.pc = "start", !.cacheOn = c, !.raw = r, !.prior = n,
                              !.workers = [w \in 1..PoolWorkers |-> PoolIdle]] :
                 c \in BOOLEAN,
                 r \in UNION {[1..k -> {0, 1, MaxRaw}] : k \in 1..MaxPoolFiles},
                 n \in 0..(MaxTotalFindings - 1)}

\* worker w at the head of `while (index < plan.files.length)`:
\* `plan.files[index++]` up to the first await, or the end of the worker
PoolPick(p, w) ==
    IF p.index < Len(p.raw)
    THEN [p EXCEPT !.index = indexIncremented(p.index),
                   !.picked = Append(@, p.index + 1),
                   !.workers[w] = [pc |-> IF p.cacheOn THEN "get" ELSE "scan",
                                   file |-> p.index + 1, ff |-> 0]]
    ELSE [p EXCEPT !.workers[w] = PoolIdle]

RECURSIVE PoolPickAll(_, _)
\* Array.from({ length: concurrency }, worker): the workers start in order
PoolPickAll(p, w) ==
    IF w > PoolWorkers THEN p ELSE PoolPickAll(PoolPick(p, w), w + 1)

\* `await Promise.all(Array.from({ length: concurrency }, worker))` begins
PoolStart ==
    /\ pool.pc = "start"
    /\ pool' = PoolPickAll([pool EXCEPT !.pc = "join"], 1)
    /\ UNCHANGED <<cacheVars, scanVars, mcpVars, procVars, postVars, engVars, histVars,
                   collVars, unitsBut_pool>>

\* worker w from the per-file limit to its next await: the limits, `break`
\* when findings have no room, the next turn of the loop otherwise
PoolFinish(w, n) ==
    LET fileFindings == Min(n, MaxFindingsPerFile)
        remainingCapacity == MaxTotalFindings - pool.prior - pool.skillFindings
        stop == fileFindings > 0 /\ remainingCapacity <= 0
        added == IF fileFindings > 0 /\ remainingCapacity > 0
                 THEN Min(fileFindings, remainingCapacity) ELSE 0
        p == [pool EXCEPT !.skillFindings = @ + added]
    IN  IF stop THEN [p EXCEPT !.workers[w] = PoolIdle] ELSE PoolPick(p, w)

\* worker w: `await cache.getCachedFindings(filePath)`, a hit or a miss
PoolGet(w, hit) ==
    /\ pool.pc = "join"
    /\ pool.workers[w].pc = "get"
    /\ pool' = IF hit THEN PoolFinish(w, pool.raw[pool.workers[w].file])
               ELSE [pool EXCEPT !.workers[w].pc = "scan"]
    /\ UNCHANGED <<cacheVars, scanVars, mcpVars, procVars, postVars, engVars, histVars,
                   collVars, unitsBut_pool>>

\* worker w: `await scanFile(..)` returns, or throws into the worker's catch
PoolScan(w, ok) ==
    /\ pool.pc = "join"
    /\ pool.workers[w].pc = "scan"
    /\ pool' = IF ~ok THEN PoolPick(pool, w)
               ELSE IF pool.cacheOn
               THEN [pool EXCEPT !.workers[w].pc = "set",
                                 !.workers[w].ff = pool.raw[pool.workers[w].file]]
               ELSE PoolFinish(w, pool.raw[pool.workers[w].file])
    /\ UNCHANGED <<cacheVars, scanVars, mcpVars, procVars, postVars, engVars, histVars,
                   collVars, unitsBut_pool>>

\* worker w: `await cache.setCachedFindings(filePath, fileFindings)`
PoolSet(w) ==
    /\ pool.pc = "join"
    /\ pool.workers[w].pc = "set"
    /\ pool' = PoolFinish(w, pool.workers[w].ff)
    /\ UNCHANGED <<cacheVars, scanVars, mcpVars, procVars, postVars, engVars, histVars,
                   collVars, unitsBut_pool>>

\* Promise.all resolves: every worker has left its loop
PoolJoin ==
    /\ pool.pc = "join"
    /\ \A w \in 1..PoolWorkers : pool.workers[w].pc = "end"
    /\ pool' = [pool EXCEPT !.pc = "done"]
    /\ UNCHANGED <<cacheVars, scanVars, mcpVars, procVars, postVars, engVars, histVars,
                   collVars, unitsBut_pool>>



\* the state of these variables in the specifications of the other parts
UnitOff ==
    /\ batch = BatchOff
    /\ ending = EndingOff
    /\ res = ResOff
    /\ excl = ExclOff
    /\ walk = WalkOff
    /\ pager = PagerOff
    /\ pool = PoolOff

\* every other part is off while batch is explored
OnlyBatch ==
    /\ ending = EndingOff
    /\ res = ResOff
    /\ excl = ExclOff
    /\ walk = WalkOff
    /\ pager = PagerOff
    /\ pool = PoolOff

\* every other part is off while ending is explored
OnlyEnding ==
    /\ batch = BatchOff
    /\ res = ResOff
    /\ excl = ExclOff
    /\ walk = WalkOff
    /\ pager = PagerOff
    /\ pool = PoolOff

\* every other part is off while res is explored
OnlyRes ==
    /\ batch = BatchOff
    /\ ending = EndingOff
    /\ excl = ExclOff
    /\ walk = WalkOff
    /\ pager = PagerOff
    /\ pool = PoolOff

\* every other part is off while excl is explored
OnlyExcl ==
    /\ batch = BatchOff
    /\ ending = EndingOff
    /\ res = ResOff
    /\ walk = WalkOff
    /\ pager = PagerOff
    /\ pool = PoolOff

\* every other part is off while walk is explored
OnlyWalk ==
    /\ batch = BatchOff
    /\ ending = EndingOff
    /\ res = ResOff
    /\ excl = ExclOff
    /\ pager = PagerOff
    /\ pool = PoolOff

\* every other part is off while pager is explored
OnlyPager ==
    /\ batch = BatchOff
    /\ ending = EndingOff
    /\ res = ResOff
    /\ excl = ExclOff
    /\ walk = WalkOff
    /\ pool = PoolOff

\* every other part is off while pool is explored
OnlyPool ==
    /\ batch = BatchOff
    /\ ending = EndingOff
    /\ res = ResOff
    /\ excl = ExclOff
    /\ walk = WalkOff
    /\ pager = PagerOff

NextScan ==
    \/ BeginTarget
    \/ ParallelGet
    \/ ParallelScan
    \/ ParallelSet
    \/ ParallelAssemble
    \/ \E w \in Workers : WorkerGet(w)
    \/ \E w \in Workers : WorkerScan(w)
    \/ \E w \in Workers : WorkerSet(w)
    \/ Join
    \/ PostTarget
    \/ ScanSave
    \/ Finalize
    \/ NewScanRun

\* a first run of the scanner: no cache file yet
InitRunScan == InitCache /\ InitScan /\ McpOff /\ ProcOff /\ PostOff /\ EngOff /\ CollectOff /\ UnitOff

SpecScan == InitRunScan /\ [][NextScan]_vars

(***************************************************************************)
(* SpecSignal: one run of the scanner, with or without the TUI, during     *)
(* which a signal can arrive.                                              *)
(***************************************************************************)
InitRunSignal ==
    /\ InitCache
    /\ InitScan
    /\ McpOff
    /\ proc \in {[ProcStart EXCEPT !.tui = t] : t \in BOOLEAN}
    /\ PostOff
    /\ EngOff
    /\ CollectOff /\ UnitOff

NextSignal ==
    \/ Running /\ BeginTarget
    \/ Running /\ ParallelGet
    \/ Running /\ ParallelScan
    \/ Running /\ ParallelSet
    \/ Running /\ ParallelAssemble
    \/ \E w \in Workers : Running /\ WorkerGet(w)
    \/ \E w \in Workers : Running /\ WorkerScan(w)
    \/ \E w \in Workers : Running /\ WorkerSet(w)
    \/ Running /\ Join
    \/ Running /\ PostTarget
    \/ Running /\ ScanSave
    \/ Running /\ Finalize
    \/ \E sig \in Signals : Signal(sig)

SpecSignal == InitRunSignal /\ [][NextSignal]_vars

(***************************************************************************)
(* SpecPost: one run of the scanner with the options of the post-pass:     *)
(* confidence scores, a minimum confidence, --fix.                         *)
(***************************************************************************)
InitRunPost ==
    /\ InitCache
    /\ InitScan
    /\ McpOff
    /\ ProcOff
    /\ post \in PostChoices
    /\ fixedLines = {}
    /\ EngOff
    /\ CollectOff /\ UnitOff

NextPost ==
    \/ BeginTarget
    \/ ParallelGet
    \/ ParallelScan
    \/ ParallelSet
    \/ ParallelAssemble
    \/ \E w \in Workers : WorkerGet(w)
    \/ \E w \in Workers : WorkerScan(w)
    \/ \E w \in Workers : WorkerSet(w)
    \/ Join
    \/ PostTarget
    \/ ScanSave
    \/ Finalize

SpecPost == InitRunPost /\ [][NextPost]_vars

\* a ScanCache on its own, no scan in progress
Init == InitCache /\ ScanOff /\ McpOff /\ ProcOff /\ PostOff /\ EngOff /\ CollectOff /\ UnitOff

\* one caller that awaits each call before it makes the next
Sequential == saver.pc = "idle" /\ \A c \in Calls : calls[c].pc = "idle"

(***************************************************************************)
(* SpecLock: any number of callers of one ScanCache, at most MaxCalls of   *)
(* their calls in flight, and the event loop.                              *)
(***************************************************************************)
NextLock ==
    \/ \E c \in Calls : Return(c)
    \/ \E c \in Calls, p \in Paths : CallGet(c, p)
    \/ \E c \in Calls : GetHashDone(c)
    \/ \E c \in Calls, p \in Paths, n \in 0..MaxFindingsLen : CallSet(c, p, n)
    \/ \E c \in Calls : SetHashDone(c)
    \/ Release
    \/ ResumeGet
    \/ ResumeSet

SpecLock == Init /\ [][NextLock]_vars

(***************************************************************************)
(* SpecFiles: one run of the scanner; one caller at a time uses the cache  *)
(* while the clock runs and the scanned files are edited.                  *)
(***************************************************************************)
NextFiles ==
    \/ \E c \in Calls : Return(c)
    \/ \E c \in Calls, p \in Paths : Sequential /\ CallGet(c, p)
    \/ \E c \in Calls : GetHashDone(c)
    \/ \E c \in Calls, p \in Paths, n \in 0..MaxFindingsLen : Sequential /\ CallSet(c, p, n)
    \/ \E c \in Calls : SetHashDone(c)
    \/ Release
    \/ Tick
    \/ \E p \in Paths, content \in Contents : ModifyFile(p, content)

SpecFiles == Init /\ [][NextFiles]_vars

(***************************************************************************)
(* SpecRuns: the runs of the scanner, each with a ScanCache that is        *)
(* loaded, used by one caller at a time and saved, while the clock runs.   *)
(***************************************************************************)
NextRuns ==
    \/ \E c \in Calls : Return(c)
    \/ \E c \in Calls, p \in Paths : Sequential /\ CallGet(c, p)
    \/ \E c \in Calls : GetHashDone(c)
    \/ \E c \in Calls, p \in Paths, n \in 0..MaxFindingsLen : Sequential /\ CallSet(c, p, n)
    \/ \E c \in Calls : SetHashDone(c)
    \/ Release
    \/ Sequential /\ Load
    \/ Sequential /\ SaveCall
    \/ SaveSerialize
    \/ SaveDone
    \/ SaveFail
    \/ Tick
    \/ NewRun

SpecRuns == Init /\ [][NextRuns]_vars

\* a first MCP listing: no request sent yet
InitRunList == InitCache /\ ScanOff /\ InitList /\ ProcOff /\ PostOff /\ EngOff /\ CollectOff /\ UnitOff

SpecRpc == Init /\ [][NextRpc]_vars

SpecList == InitRunList /\ [][NextList]_vars

(***************************************************************************)
(* runMcpRemoteMultiScan (src/src/cli/commands/mcp.ts): every server is    *)
(* collected, then every collected plan is scanned.                        *)
(***************************************************************************)
\* a server as the run meets it: collectFromServer (or virtualizeRemote)
\* throws, or gives some virtual files, each with as many matches of the rules
ServerKinds ==
    {[fails |-> TRUE, files |-> 0, raw |-> 0]}
    \cup {[fails |-> FALSE, files |-> n, raw |-> r] : n \in 0..MaxVirtualFiles, r \in 0..1}

\* the plan pushed for a server whose collection went through, but without
\* the catch branch: a server that failed gets a plan like any other
planWithoutError(i, server) ==
    [server |-> i, error |-> FALSE, files |-> IF server.fails THEN 0 ELSE server.files]

\* the plan pushed for server i: the try branch, or the catch branch with
\* meta.error and no files
collectedPlan(i, server) ==
    IF server.fails
    THEN [server |-> i, error |-> TRUE, files |-> 0]
    ELSE [server |-> i, error |-> FALSE, files |-> server.files]

RECURSIVE SumFiles(_)
\* collectedPlans.reduce((sum, p) => sum + p.files.length, 0)
SumFiles(ps) == IF Len(ps) = 0 THEN 0 ELSE Head(ps).files + SumFiles(Tail(ps))

RECURSIVE scanMcpFiles(_, _, _)
\* scanMcpFiles: the findings of the virtual files j..n of server i, in order
scanMcpFiles(i, j, server) ==
    IF j > server.files THEN <<>>
    ELSE FindingsUnder(1, <<i, j>>, server.raw) \o scanMcpFiles(i, j + 1, server)

\* applyMetaIfEnabled
applyMetaIfEnabled(fs, opt) == IF opt.enableMeta THEN applyMetaAnalyzer(fs) ELSE fs

\* the run is started; without servers it ends at once with exit code 1
MultiCall ==
    /\ multi.pc = "idle"
    /\ multi' = IF Len(multi.servers) = 0
                THEN [multi EXCEPT !.pc = "returned", !.exitCode = 1]
                ELSE [multi EXCEPT !.pc = "collect", !.i = 1]
    /\ UNCHANGED <<mcpVars, coll>>
    /\ UNCHANGED <<cacheVars, scanVars, procVars, postVars, engVars, histVars, unitVars>>

\* one turn of `for (const server of servers)`
MultiCollect ==
    /\ multi.pc = "collect"
    /\ multi.i <= Len(multi.servers)
    /\ multi' = [multi EXCEPT !.plans = Append(@, collectedPlan(multi.i,
                                                         multi.servers[multi.i])),
                              !.i = @ + 1]
    /\ UNCHANGED <<mcpVars, coll>>
    /\ UNCHANGED <<cacheVars, scanVars, procVars, postVars, engVars, histVars, unitVars>>

\* after the loop: totalFiles, setupMcpTui
MultiSetup ==
    /\ multi.pc = "collect"
    /\ multi.i > Len(multi.servers)
    /\ multi' = [multi EXCEPT !.pc = "scan", !.i = 1, !.totalFiles = SumFiles(multi.plans)]
    /\ UNCHANGED <<mcpVars, coll>>
    /\ UNCHANGED <<cacheVars, scanVars, procVars, postVars, engVars, histVars, unitVars>>

\* one turn of `for (let i = 0; i < collectedPlans.length; i++)`
MultiScanTarget ==
    /\ multi.pc = "scan"
    /\ multi.i <= Len(multi.plans)
    /\ LET plan == multi.plans[multi.i]
           targetFindings ==
               scanMcpFiles(plan.server, 1,
                            [multi.servers[plan.server] EXCEPT !.files = plan.files])
           filteredFindings == applyMetaIfEnabled(targetFindings, multi.opt)
       IN  multi' = [multi EXCEPT !.allFindings = @ \o filteredFindings,
                                  !.scanned = Append(@, plan.server),
                                  !.i = @ + 1]
    /\ UNCHANGED <<mcpVars, coll>>
    /\ UNCHANGED <<cacheVars, scanVars, procVars, postVars, engVars, histVars, unitVars>>

\* the result is built; finalizeMcpScan: checkFailCondition sets the exit code
MultiFinalize ==
    /\ multi.pc = "scan"
    /\ multi.i > Len(multi.plans)
    /\ multi' = [multi EXCEPT
                    !.pc = "done",
                    !.result = [set |-> TRUE, targets |-> multi.plans,
                                findings |-> multi.allFindings,
                                scannedFiles |-> multi.totalFiles],
                    !.exitCode = IF multi.opt.failOn /\ multi.allFindings # <<>>
                                 THEN 2 ELSE @]
    /\ UNCHANGED <<mcpVars, coll>>
    /\ UNCHANGED <<cacheVars, scanVars, procVars, postVars, engVars, histVars, unitVars>>

(***************************************************************************)
(* SpecCollect: one collectFromServer against a server that has a book of  *)
(* pages per kind and whose requests can fail.                             *)
(***************************************************************************)
InitRunCollect ==
    /\ InitCache /\ ScanOff /\ McpOff /\ ProcOff /\ PostOff /\ EngOff
    /\ coll = [CollOff EXCEPT !.pc = "idle"]
    /\ multi = MultiOff
    /\ UnitOff

NextCollect ==
    \/ \E scan \in ScanLists, n \in 0..MaxRetriesOpt, init \in BOOLEAN :
           CollectCall(scan, SetTo(n), init)
    \/ CollectList
    \/ \E r \in ListReplies(rpcCall.params) : ListReply(r)
    \/ RpcRetry
    \/ ListPage
    \/ ListFail
    \/ CollectStore
    \/ CollectThrow
    \/ CollectReturn

SpecCollect == InitRunCollect /\ [][NextCollect]_vars

(***************************************************************************)
(* SpecMulti: one runMcpRemoteMultiScan over up to MaxServers servers.     *)
(***************************************************************************)
InitRunMulti ==
    /\ InitCache /\ ScanOff /\ McpOff /\ ProcOff /\ PostOff /\ EngOff
    /\ coll = CollOff
    /\ multi \in {[MultiOff EXCEPT !.pc = "idle", !.servers = ss, !.opt = o] :
                     ss \in SeqsUpTo(ServerKinds, MaxServers), o \in MultiOptions}
    /\ UnitOff

NextMulti ==
    \/ MultiCall
    \/ MultiCollect
    \/ MultiSetup
    \/ MultiScanTarget
    \/ MultiFinalize

SpecMulti == InitRunMulti /\ [][NextMulti]_vars

(***************************************************************************)
(* SpecEngine: scanFile on one file under a catalog of rules.              *)
(***************************************************************************)
InitRunEngine == InitCache /\ ScanOff /\ McpOff /\ ProcOff /\ PostOff /\ InitEngine /\ CollectOff /\ UnitOff

NextEngine == \E asArray \in BOOLEAN : ScanFile(asArray)

SpecEngine == InitRunEngine /\ [][NextEngine]_vars

(***************************************************************************)
(* SpecBatch: one batch of files, some of which cannot be scanned.         *)
(***************************************************************************)
InitRunBatch ==
    /\ InitCache /\ ScanOff /\ McpOff /\ ProcOff /\ PostOff /\ EngOff /\ CollectOff
    /\ OnlyBatch
    /\ InitBatch

NextBatch ==
    \/ ScanFilesParallel
    \/ WorkerTurn

SpecBatch == InitRunBatch /\ [][NextBatch]_vars

(***************************************************************************)
(* SpecExit: the end of a scan, from the findings to the exit code.        *)
(***************************************************************************)
InitRunExit ==
    /\ InitCache /\ ScanOff /\ McpOff /\ ProcOff /\ PostOff /\ EngOff /\ CollectOff
    /\ OnlyEnding
    /\ InitEnding

NextExit ==
    \/ FilterFindings
    \/ CheckFailCondition

SpecExit == InitRunExit /\ [][NextExit]_vars

(***************************************************************************)
(* SpecRead: one resource read by collectFromServer.                       *)
(***************************************************************************)
InitRunRead ==
    /\ InitCache /\ ScanOff /\ McpOff /\ ProcOff /\ PostOff /\ EngOff /\ CollectOff
    /\ OnlyRes
    /\ InitRes

NextRead == \E ok \in BOOLEAN : ReadResource(ok)

SpecRead == InitRunRead /\ [][NextRead]_vars

(***************************************************************************)
(* SpecStore: a cache filled by one caller, bounded by its size only.      *)
(***************************************************************************)
InitRunStore ==
    /\ cache = <<>>
    /\ dirty = FALSE
    /\ locks = [p \in Paths |-> 0]
    /\ waiters = [c \in Calls |-> <<>>]
    /\ mq = <<>>
    /\ calls = [c \in Calls |-> IdleCall]
    /\ saver = [pc |-> "idle", data |-> <<>>]
    /\ disk = [state |-> "absent", data |-> <<>>]
    /\ files = [p \in Paths |-> 1]
    /\ now = 0
    /\ maxEntries = MaxStorePaths + 1
    /\ catalog = 1
    /\ run = 1
    /\ last = NoLast
    /\ ScanOff /\ McpOff /\ ProcOff /\ PostOff /\ EngOff /\ CollectOff /\ UnitOff

NextStore == \E p \in 1..MaxStorePaths, n \in 0..MaxFindingsLen : SetCachedFindings(p, n)

SpecStore == InitRunStore /\ [][NextStore]_vars

(***************************************************************************)
(* SpecExclude: the matches of one rule tested against its exclude         *)
(* patterns.                                                               *)
(***************************************************************************)
InitRunExclude ==
    /\ InitCache /\ ScanOff /\ McpOff /\ ProcOff /\ PostOff /\ EngOff /\ CollectOff
    /\ OnlyExcl
    /\ InitExcl

NextExclude == ExecMatch

SpecExclude == InitRunExclude /\ [][NextExclude]_vars

(***************************************************************************)
(* SpecWalk: the symlink checks of one run over its targets.               *)
(***************************************************************************)
InitRunWalk ==
    /\ InitCache /\ ScanOff /\ McpOff /\ ProcOff /\ PostOff /\ EngOff /\ CollectOff
    /\ OnlyWalk
    /\ InitWalk

NextWalk ==
    \/ ResetPathTracking
    \/ SafetyCheck

SpecWalk == InitRunWalk /\ [][NextWalk]_vars

(***************************************************************************)
(* SpecPager: listAll against a server that chooses its cursors; the       *)
(* event loop runs every continuation that is ready, hence the weak        *)
(* fairness of the step.                                                   *)
(***************************************************************************)
InitRunPager ==
    /\ InitCache /\ ScanOff /\ McpOff /\ ProcOff /\ PostOff /\ EngOff /\ CollectOff
    /\ OnlyPager
    /\ InitPager

NextPager ==
    \/ PageReturned
    \/ \E e \in {Thrown(TRUE, Code(MethodNotFound), 1), Thrown(FALSE, NoCode, 1)} :
          PageThrown(e)

SpecPager == InitRunPager /\ [][NextPager]_vars /\ WF_vars(NextPager)

(***************************************************************************)
(* SpecPool: the workers of one target, interleaved at their awaits.       *)
(***************************************************************************)
InitRunPool ==
    /\ InitCache /\ ScanOff /\ McpOff /\ ProcOff /\ PostOff /\ EngOff /\ CollectOff
    /\ OnlyPool
    /\ InitPool

NextPool ==
    \/ PoolStart
    \/ \E w \in 1..PoolWorkers, hit \in BOOLEAN : PoolGet(w, hit)
    \/ \E w \in 1..PoolWorkers, ok \in BOOLEAN : PoolScan(w, ok)
    \/ \E w \in 1..PoolWorkers : PoolSet(w)
    \/ PoolJoin

SpecPool == InitRunPool /\ [][NextPool]_vars

(***************************************************************************)
(* SpecSave: a caller that stores findings in a ScanCache while it is      *)
(* being saved: save() awaits mkdir and writeFile, and setCachedFindings   *)
(* runs at those awaits.                                                   *)
(***************************************************************************)
\* the caller awaits each of its cache calls
OneCaller == \A c \in Calls : calls[c].pc = "idle"

NextSave ==
    \/ \E c \in Calls : Return(c)
    \/ \E c \in Calls, p \in Paths, n \in 0..MaxFindingsLen : OneCaller /\ CallSet(c, p, n)
    \/ \E c \in Calls : SetHashDone(c)
    \/ Release
    \/ SaveCall
    \/ SaveSerialize
    \/ SaveDone
    \/ SaveFail

SpecSave == Init /\ [][NextSave]_vars

Next == NextRuns
Spec == Init /\ [][Next]_vars

(***************************************************************************)
(* Claims about the cache.                                                 *)
(***************************************************************************)
\* the setCachedFindings calls on path p whose doSetCachedFindings is running
WritersOn(p) ==
    {c \in Calls : calls[c].op = "set" /\ calls[c].path = p /\ calls[c].pc = "hashing"}

\* C1: cache writes to one path are serialized: at any time at most one
\* setCachedFindings on a path is between the start and the end of its
\* doSetCachedFindings (hashing, evicting, inserting).
C1_WritesSerialized == \A p \in Paths : Cardinality(WritersOn(p)) <= 1

\* C2: a getCachedFindings blocks behind the writers of its path: in the step
\* in which it reads the entry of its path, no setCachedFindings of that path
\* is in progress.
C2_ReadBehindWriter ==
    [][\A c \in Calls :
          (/\ calls[c].pc \in {"idle", "waitLock"}
           /\ calls'[c].op = "get"
           /\ calls'[c].pc \in {"readHash", "done"})
          => WritersOn(calls'[c].path) = {}]_vars

\* C3: getCachedFindings answers with findings only if the entry it read has
\* the live rule version, was younger than the TTL when it was read, and its
\* hash equals the hash just computed from the file.
C3_HitOnlyIfValid ==
    \A c \in Calls :
        (calls[c].op = "get" /\ calls[c].pc = "done" /\ calls[c].result.hit)
        => /\ calls[c].cached.ruleVersion = RuleVersion(catalog)
           /\ calls[c].at - calls[c].cached.timestamp < MaxAge
           /\ calls[c].seen = calls[c].cached.hash

\* C9: after a change of the rule catalog no finding cached under an earlier
\* catalog is answered: every finding a getCachedFindings returns was
\* reported by the rules of the catalog of this run.
C9_NoStaleCatalogHit ==
    \A c \in Calls :
        (calls[c].op = "get" /\ calls[c].pc = "done" /\ calls[c].result.hit)
        => \A i \in 1..Len(calls[c].result.findings) :
               calls[c].result.findings[i].ruleId = catalog

\* C10: whenever a setCachedFindings has completed, the cache holds at most
\* maxEntries entries.
C10_AtMostMaxEntries ==
    \A c \in Calls :
        (calls[c].op = "set" /\ calls[c].pc \in {"release", "done"})
        => Len(cache) <= maxEntries

\* C4: when a scan has finished, its final findings are at most
\* maxTotalFindings, on both branches and with findings taken from the cache
C4_TotalWithinBudget ==
    scanResult.done => Len(scanResult.findings) <= MaxTotalFindings

\* a response that is JSON-RPC error -32601, and a response with a 4xx status
IsMethodNotFoundReply(r) == ~r.net /\ r.body = "error" /\ r.code = Code(MethodNotFound)
Is4xxReply(r) == ~r.net /\ r.status >= 400 /\ r.status <= 499

\* C5: a call whose response is JSON-RPC error -32601 or has a 4xx status is
\* not retried, whatever the body of the response: one request is sent and
\* the error of that response is thrown to the caller
C5_ClientErrorNotRetried ==
    (Len(replies) >= 1 /\ (IsMethodNotFoundReply(replies[1]) \/ Is4xxReply(replies[1])))
    => /\ Len(wire) = 1
       /\ rpcCall.pc = "thrown"
       /\ rpcCall.error = ErrorOf(replies[1], 1)

\* a response that is a network error, a timeout or an HTTP 5xx
IsTransientReply(r) == r.net \/ r.body = "aborted" \/ (r.status >= 500 /\ r.status <= 599)

\* a call with the default options all of whose responses so far are transient
DefaultCallFailing ==
    /\ rpcCall.pc # "idle"
    /\ ~rpcCall.opt.set
    /\ \A i \in 1..Len(replies) : IsTransientReply(replies[i])

\* C6: with the default options, a call that keeps failing with network
\* errors, timeouts or HTTP 5xx sends at most DefaultMaxRetries + 1 requests,
\* never returns a result, has thrown once the last of those requests has
\* failed, and what it throws is the error of the last response
C6_RetriesBounded ==
    DefaultCallFailing
    => /\ Len(wire) <= DefaultMaxRetries + 1
       /\ rpcCall.pc # "returned"
       /\ (Len(replies) = DefaultMaxRetries + 1 => rpcCall.pc = "thrown")
       /\ (rpcCall.pc = "thrown"
              => rpcCall.error = ErrorOf(replies[Len(replies)], Len(wire)))

\* C6 witness: a default call has thrown after DefaultMaxRetries + 1 requests
\* that failed with a network error, ..., and last an HTTP 500
C6_Exhausted ==
    /\ DefaultCallFailing
    /\ rpcCall.pc = "thrown"
    /\ Len(wire) = DefaultMaxRetries + 1
    /\ replies[1] = NetworkError
    /\ replies[Len(replies)] = Http(500, "empty", NoCode, 0)

RECURSIVE ItemsOfPages(_, _)
\* the items of pages 1..m of the server, in page order
ItemsOfPages(b, m) ==
    IF m = 0 THEN <<>>
    ELSE ItemsOfPages(b, m - 1)
         \o (IF b[m].n = 0 THEN <<>> ELSE <<[page |-> m, count |-> b[m].n]>>)

RECURSIVE TotalOfPages(_, _)
\* how many items pages 1..m hold together
TotalOfPages(b, m) == IF m = 0 THEN 0 ELSE TotalOfPages(b, m - 1) + b[m].n

\* the first page without a nextCursor to ask the next page with
FirstWithoutCursor(b) ==
    CHOOSE m \in 1..Len(b) :
        b[m].next # "following" /\ \A j \in 1..(m - 1) : b[j].next = "following"

\* page m ends the listing: its nextCursor is absent or empty, or the pages up
\* to it hold more than ListCap items
EndsListing(b, m) == b[m].next # "following" \/ TotalOfPages(b, m) > ListCap

\* the first page that ends the listing
LastPageListed(b) ==
    CHOOSE m \in 1..Len(b) : EndsListing(b, m) /\ \A j \in 1..(m - 1) : ~EndsListing(b, j)

\* every listing call carried the nextCursor of the page before it, on every
\* request it sent
CursorsChained ==
    /\ lst.asked[1] = NoCursor
    /\ \A k \in 2..Len(lst.asked) : lst.asked[k] = normalizeListResult(book, k - 1).nextCursor
    /\ \A i \in 1..Len(wire) : wire[i].cursor = lst.asked[Len(lst.asked)]

\* a listing that returned with every one of its calls answered by a page
ListedPages == lst.pc = "returned" /\ ~lst.notFound

\* C7 as stated: the aggregated list is the concatenation of the pages up to
\* and including the first page without nextCursor, and each request after
\* the first carries the nextCursor of the page before
C7_ConcatUntilNoCursor ==
    ListedPages
    => /\ lst.result = ItemsOfPages(book, FirstWithoutCursor(book))
       /\ Len(lst.asked) = FirstWithoutCursor(book)
       /\ CursorsChained

\* C7 amended: the aggregated list is the concatenation of the pages up to
\* and including the first page whose nextCursor is absent or empty or with
\* which the aggregate exceeds ListCap items, and each request after the
\* first carries the nextCursor of the page before
C7_ConcatUntilEnd ==
    ListedPages
    => /\ lst.result = ItemsOfPages(book, LastPageListed(book))
       /\ Len(lst.asked) = LastPageListed(book)
       /\ CursorsChained

\* C7 witness: a listing of two pages with items, the second asked for with
\* the first one's cursor after a retry, a third page never asked for
C7_TwoPagesListed ==
    /\ ListedPages
    /\ Len(book) = MaxPages
    /\ Len(lst.asked) = 2
    /\ Len(lst.result) = 2
    /\ Len(wire) = 2
    /\ wire[2].cursor = 2

\* C8: the list a listing call returns has at most ListCap items
C8_AtMostListCap ==
    lst.pc = "returned" => ItemCount(lst.result) <= ListCap

\* the entries of the cache in memory are in the cache file
CacheFlushed ==
    \A i \in 1..Len(cache) :
        /\ disk.state = "ok"
        /\ MapHas(disk.data, cache[i].path)
        /\ MapGet(disk.data, cache[i].path) = cache[i]

\* C11: when a signal has ended the process during a scan, the cache entries
\* written before the signal are in the cache file
C11_FlushedOnSignal ==
    (proc.signal # "none" /\ ~Running) => CacheFlushed

\* C12: when a signal has arrived during a scan, the show-cursor sequence was
\* written and the process has exited with code 0, with the TUI or without
C12_CursorShownExitZero ==
    proc.signal # "none"
    => /\ proc.state = "exited"
       /\ proc.exitCode = 0
       /\ proc.cursorShown

\* C13: the fix pass comes after the confidence filter: with --fix and a
\* minimum confidence, every line the fix pass has rewritten is the line of a
\* finding whose confidence passes the filter
C13_FixOnlyFiltered ==
    (post.fix /\ post.showConfidence /\ post.minConfidence.set)
    => \A fl \in fixedLines : post.conf[fl[1]] >= post.minConfidence.value

\* how many findings of file p are in the list fs
CountOfFile(fs, p) == Len(SelectSeq(fs, LAMBDA f : f.file = p))

\* C14: no file contributes more than maxFindingsPerFile findings to the
\* result of a scan, from the cache or from a fresh scan, on either branch
C14_PerFileCap ==
    scanResult.done
    => \A p \in Paths : CountOfFile(scanResult.findings, p) <= MaxFindingsPerFile

\* how many findings of rule r are in the list fs
CountOfRule(fs, r) == Len(SelectSeq(fs, LAMBDA f : f.ruleId = r))

\* C15: for every rule, the engine emits at most MaxFindingsPerRulePerFile
\* findings on the file, counted over all patterns of the rule
C15_PerRuleCap ==
    \A r \in 1..Len(eng.rules) :
        CountOfRule(eng.findings, r) <= MaxFindingsPerRulePerFile

\* C16: the findings of the file are in rule-declaration order, and those of
\* one rule in the order of their match offsets, whatever the number of its
\* patterns
C16_DeclarationThenOffsetOrder ==
    \A i, j \in 1..Len(eng.findings) :
        i < j => /\ eng.findings[i].ruleId <= eng.findings[j].ruleId
                 /\ (eng.findings[i].ruleId = eng.findings[j].ruleId
                        => eng.findings[i].line <= eng.findings[j].line)


\* C17: persisting the cache is atomic: whatever happens to a save, the cache
\* file is absent (never saved), or holds a complete map: the previous one or
\* the new one, never a partially written text
C17_SaveAtomic == disk.state \in {"absent", "ok"}


\* the caller's last call was a setCachedFindings of the path of get call c,
\* the bytes of the file are those the set hashed, and the get read the entry
\* before its max age had passed
JustStored(c) ==
    /\ calls[c].op = "get"
    /\ calls[c].pc = "done"
    /\ last.op = "set"
    /\ last.path = calls[c].path
    /\ files[calls[c].path] = last.content
    /\ calls[c].at - last.at <= MaxAge

\* C18 as stated: for any file whose bytes do not change in between, the
\* getCachedFindings called right after a completed setCachedFindings of the
\* path returns exactly the findings that were stored
C18_GetAfterSet ==
    \A c \in Calls : JustStored(c) => calls[c].result = Hit(last.findings)

\* C18, amended: the same for any file that can be read
C18_GetAfterSetReadable ==
    \A c \in Calls :
        (JustStored(c) /\ last.content # 0) => calls[c].result = Hit(last.findings)

\* C18, witness: a get right after the set of a readable, unchanged file has
\* returned the stored findings, and there are some
C18_StoredReturned ==
    \E c \in Calls : /\ JustStored(c)
                      /\ last.content # 0
                      /\ last.findings # <<>>
                      /\ calls[c].result = Hit(last.findings)


\* the list method of kind k was answered with JSON-RPC error -32601
AnsweredNotFound(k) ==
    coll.collected[k].listed /\ IsMethodNotFoundReply(coll.collected[k].lastReply)

\* C19: when a list method is answered with JSON-RPC error -32601, listAll
\* returns the empty list and raises no error: collectFromServer is not
\* thrown out, the kind's list is empty, and when collectFromServer returns
\* every kind of the scan list has been listed
C19_NotFoundIsEmptyList ==
    /\ (replies # <<>> /\ IsMethodNotFoundReply(replies[Len(replies)]))
       => /\ coll.pc = "running"
          /\ lst.pc \in {"await", "returned"}
          /\ lst.pc = "returned" => lst.result = <<>>
    /\ \A k \in 1..Len(ListKinds) : AnsweredNotFound(k) => coll.collected[k].empty
    /\ coll.pc = "returned"
       => \A k \in 1..Len(ListKinds) :
              ListKinds[k] \in coll.scan => coll.collected[k].listed

\* C19, witness: collectFromServer has returned; one kind was answered with
\* -32601 and a kind after it was listed and has items
C19_NextKindCollected ==
    /\ coll.pc = "returned"
    /\ \E k1, k2 \in 1..Len(ListKinds) :
           /\ k1 < k2
           /\ AnsweredNotFound(k1)
           /\ coll.collected[k2].listed
           /\ ~coll.collected[k2].empty

\* C20: in a multi-server scan a server whose collection fails gets `error`
\* in its target's meta, and every other server is collected and scanned:
\* the result has one target per server, in order, the targets of the servers
\* that answered carry their files and no error, each of them was scanned and
\* its findings are in the result; the run ends without a result only when
\* there is no server at all
C20_FailureDoesNotAbort ==
    /\ multi.pc = "returned" => Len(multi.servers) = 0
    /\ multi.pc = "done"
       => /\ multi.result.set
          /\ Len(multi.result.targets) = Len(multi.servers)
          /\ \A i \in 1..Len(multi.servers) :
                LET server == multi.servers[i]
                    target == multi.result.targets[i]
                IN  /\ target.server = i
                    /\ target.error = server.fails
                    /\ \E n \in 1..Len(multi.scanned) : multi.scanned[n] = i
                    /\ ~server.fails
                       => /\ target.files = server.files
                          /\ \A j \in 1..server.files, l \in 1..server.raw :
                                \E n \in 1..Len(multi.result.findings) :
                                    multi.result.findings[n] =
                                        [ruleId |-> 1, file |-> <<i, j>>, line |-> l]

\* C20, witness: a run has ended in which a server failed and a server after
\* it was collected and scanned with findings
C20_ScannedAfterFailure ==
    /\ multi.pc = "done"
    /\ \E i, j \in 1..Len(multi.servers) :
           /\ i < j
           /\ multi.servers[i].fails
           /\ multi.result.targets[i].error
           /\ ~multi.servers[j].fails
           /\ \E n \in 1..Len(multi.result.findings) :
                  multi.result.findings[n].file[1] = j

\* C21: a file that cannot be scanned yields no findings, and every other
\* planned file of the batch is scanned and its findings are reported
Scannable(f) == f.fault = "none" /\ detectFileType(f) # "binary"

PlaceOf(s) == CHOOSE i \in 1..4 : Severities[i] = s

\* finding f is part of the reported result
Reported(f) ==
    ~(ending.showConfidence /\ ending.minConfidence.set)
    \/ f.confidence >= ending.minConfidence.value

\* C22: a completed scan exits with 2 exactly when a --fail-on threshold is set
\* and a reported finding is at or above it, and with 0 otherwise
C22_ExitCode ==
    ending.pc = "done" =>
        LET failing == /\ ending.failOn.set
                       /\ \E i \in 1..Len(ending.findings) :
                             /\ Reported(ending.findings[i])
                             /\ PlaceOf(ending.findings[i].severity)
                                    >= PlaceOf(ending.failOn.value)
        IN  proc.exitCode = IF failing THEN 2 ELSE 0

\* C22 witness: a scan exits with 2 for a finding exactly at the threshold
\* while a finding above it was filtered out of the result
C22_ExitTwoAtThreshold ==
    /\ ending.pc = "done"
    /\ proc.exitCode = 2
    /\ Len(ending.result) = 1
    /\ ending.result[1].severity = ending.failOn.value
    /\ Len(ending.findings) = 2

\* C23: the content stored for a resource is at most max_resource_bytes long
\* in UTF-8, multi-byte text included
C23_StoredWithinMaxBytes ==
    res.entry.stored => byteLength(res.entry.content) <= res.maxResourceBytes

\* C24: set_cached evicts until the estimated size is below maxSizeBytes and
\* only then inserts: right after a set, the entries other than the one just
\* written are together below the limit
C24_EvictedBelowLimit ==
    last.op = "set" => estimateCacheSize(MapDelete(cache, last.path)) < MaxSizeBytes

\* C25: a match whose text matches an exclude pattern of the rule gives no
\* finding, whatever matches were tested before it
C25_ExcludedNeverReported ==
    \A k \in 1..(excl.k - 1) :
        (\E r \in 1..Len(excl.lastIndexes) : excl.matches[k][r] # {})
            => \A j \in 1..Len(excl.findings) : excl.findings[j] # k

\* C26: the visited set is empty when a scan root begins: a symlink is taken
\* for circular only if an earlier symlink of the same target resolves to
\* the same path
C26_CircularWithinTarget ==
    \A c \in walk.circular :
        \E k \in 1..(c[2] - 1) :
            /\ walk.plans[c[1]][k].symlink
            /\ walk.plans[c[1]][k].real = walk.plans[c[1]][c[2]].real

\* C27: a listing ends after finitely many page requests, whatever the
\* server answers
C27_ListingTerminates == <>(pager.pc \in {"returned", "thrown"})

\* C28: in the bounded-concurrency branch no file is picked twice and,
\* unless the budget of findings is used up, every file of the plan is picked
C28_EachFileOnce ==
    /\ \A i, j \in 1..Len(pool.picked) : i # j => pool.picked[i] # pool.picked[j]
    /\ \A w, v \in 1..Len(pool.workers) :
          w # v /\ pool.workers[w].pc # "end" /\ pool.workers[v].pc # "end"
              => pool.workers[w].file # pool.workers[v].file
    /\ (pool.pc = "done" /\ pool.prior + pool.skillFindings < MaxTotalFindings)
          => \A f \in 1..Len(pool.raw) : \E i \in 1..Len(pool.picked) : pool.picked[i] = f

\* C28 witness: a plan with more files than workers is done below the budget,
\* its last file picked by a worker that had finished an earlier one
C28_LaterFilePicked ==
    /\ pool.pc = "done"
    /\ Len(pool.raw) > PoolWorkers
    /\ Len(pool.picked) = Len(pool.raw)
    /\ pool.skillFindings > 0
    /\ pool.prior + pool.skillFindings < MaxTotalFindings

\* how often finding f occurs in the list fs
CountIn(fs, f) == Len(SelectSeq(fs, LAMBDA g : g = f))

\* C29: on the same content and rules, scanFile with the IndexedRuleEngine
\* (bounded-concurrency branch) reports the same multiset of findings as
\* scanFile with the array of all rules (parallel branch)
C29_BranchesAgree ==
    eng.pc = "indexed" =>
        LET all == scanContent(eng.rules, getAllRules(eng.rules), ScannedType) IN
        /\ Len(eng.findings) = Len(all)
        /\ \A i \in 1..Len(all) : CountIn(eng.findings, all[i]) = CountIn(all, all[i])

\* C30: when no save is in progress and dirty is false after a save that
\* succeeded, the cache file holds the map that is in memory
C30_CleanMeansSaved ==
    (~dirty /\ saver.pc = "idle" /\ disk.state = "ok") => disk.data = cache

=============================================================================
